---- MODULE Spec2Model ----
(***************************************************************************)
(* Yahoo Finance history scraper: the batch orchestrator (main), the per-   *)
(* item pipeline (scrape_ticker / scrape_input), the range selector        *)
(* (click_5y_and_wait), the pagination loader (scroll_to_load_all_rows)     *)
(* and the table selection of parse_table_html, for the two script         *)
(* variants "Close to final/extract.py" and "Final Version 1/url_extract.py". *)
(***************************************************************************)
EXTENDS Integers, Sequences, FiniteSets, TLC

(* ------------------------------ bounds --------------------------------- *)
\* longest input list explored
MaxItems == 2
\* row-count levels explored below the 5Y threshold: 0..MaxSmall
MaxSmall == 1
\* most tables in a document handed to parse_table_html on its own
MaxTables == 3

(* ------------------------- program constants --------------------------- *)
max_retries == 3
max_loops == 50
patience == 3
five_y_threshold == 1000
min_td_count == 6
min_td_extract == 6
min_td_url_extract == 7
polite_delay == 2

VARIABLES
  script,        \* which script runs: "extract" or "url_extract"
  tickers,       \* the input list (sys.argv[1:] or the config's 'tickers')
  lazyOnly,      \* TRUE: scrolling only ever adds rows; FALSE: any row count may be reported
  pc,            \* position of main / scrape_ticker / click_5y_and_wait / scroll_to_load_all_rows
  idx,           \* 1-based position of the loop of main in tickers
  driverLive,    \* the browser session exists and has not been quit
  quitCount,     \* number of driver.quit() calls
  pendingAbort,  \* a BaseException (KeyboardInterrupt) is propagating through finally
  all_data,      \* dict: ticker label -> number of records of its DataFrame
  failed,        \* list of inputs whose processing raised
  page,          \* the document currently rendered in the browser
  attempt,       \* loop variable of click_5y_and_wait
  clickFailures, \* attempts of click_5y_and_wait of this item that raised
  degraded,      \* click_5y_and_wait used up its attempts and returned
  loop_i,        \* loop variable of scroll_to_load_all_rows
  last_count,
  stable_rounds,
  measures,      \* count_data_rows calls made by scroll_to_load_all_rows for this item
  scrolls,       \* window.scrollTo scripts executed for this item
  firstZero,     \* the first measurement of scroll_to_load_all_rows was 0 valid rows
  loaderExit,    \* how scroll_to_load_all_rows ended: "none", "converged", "budget"
  loaderReturn,  \* what scroll_to_load_all_rows handed to its caller: "pending", "None"
  df,            \* records of the DataFrame scrape_ticker returns, -1 before it
  selected,      \* index of the table parse_table_html selected, 0 none, -1 not parsed
  lastError,     \* the exception caught for the current item, "none" if none
  outcomes,      \* per attempted item, "ok" or "err"
  attempted,     \* the inputs for which scrape_ticker / scrape_input was called, in call order
  sinceItemEnd,  \* seconds slept since the previous item's outcome was recorded
  navDelay,      \* sinceItemEnd as it was when the current item was started
  exitCode,      \* "running", "0" (main returned), "1" (sys.exit(1)), or the exception that left main
  exported,      \* the workbook was written
  orphans,       \* browser sessions build_driver started and did not return
  trs,           \* the <tr> elements of the selected table's tbody, in document order
  rows,          \* the list `rows` parse_table_html hands to pd.DataFrame
  frame,         \* the records of the DataFrame parse_table_html returns
  parseError,    \* the exception parse_table_html raised, "none" if it returned
  roundObjectRaises, \* the installed pandas raises on Series.round of an object column
  cell,          \* a cell string handed to to_float and to_int
  asFloat,       \* what to_float made of cell
  asInt,         \* what to_int made of cell
  xpaths,        \* accept_cookies_if_present: what the page holds for each XPath it tries
  xp_i,          \* accept_cookies_if_present: 1-based position of its loop over the XPaths
  clicks,        \* accept_cookies_if_present: consent buttons clicked
  argv,          \* sys.argv[1:]
  config,        \* what config.json is: missing, unreadable, or the object it holds
  lastMeasure,   \* the count the latest measurement of the loader returned, -1 before one
  equalRun,      \* how many of the latest measurements in a row returned the same count
  refreshes,     \* driver.refresh() calls of click_5y_and_wait for this item
  dropdown,      \* what the running attempt has verified of the dropdown: "unverified", "open", "closed"
  latest_close,  \* url_extract_EV_EBITDA.py: the 'Latest Close' of the summary row
  data,          \* the fetcher classes' self.data: ticker -> what is stored for it
  successful,    \* the fetcher classes' list `successful`
  calls,         \* fetch_daily_data calls made so far
  waited         \* seconds slept since the latest fetch_daily_data call

vars == <<script, tickers, lazyOnly, pc, idx, driverLive, quitCount, pendingAbort,
          all_data, failed, page, attempt, clickFailures, degraded, loop_i,
          last_count, stable_rounds, measures, scrolls, firstZero, loaderExit,
          loaderReturn, df, selected, lastError, outcomes, attempted,
          sinceItemEnd, navDelay, exitCode, exported, orphans, trs, rows, frame,
          parseError, roundObjectRaises, cell, asFloat, asInt, xpaths, xp_i, clicks,
          argv, config, lastMeasure, equalRun, refreshes, dropdown, latest_close,
          data, successful, calls, waited>>

mainVars == <<idx, driverLive, quitCount, pendingAbort, all_data, failed, outcomes,
              attempted, sinceItemEnd, navDelay, exitCode, exported>>
clickVars == <<attempt, clickFailures, degraded, refreshes, dropdown>>
scrollVars == <<loop_i, last_count, stable_rounds, measures, scrolls, firstZero,
                loaderExit, loaderReturn, lastMeasure, equalRun>>
parseVars == <<df, selected>>
inputVars == <<script, tickers, lazyOnly>>
normVars == <<trs, rows, frame, parseError, roundObjectRaises, cell, asFloat, asInt>>
consentVars == <<xpaths, xp_i, clicks>>
argVars == <<argv, config>>
fetcherVars == <<latest_close, data, successful, calls, waited>>

(* ------------------------------ inputs --------------------------------- *)
\* An input is its text cut at '/': a bare ticker is one segment, a URL is
\* the scheme followed by its path segments.
TickerD05 == <<"D05.SI">>
TickerO39 == <<"O39.SI">>
TickerU11 == <<"U11.SI">>
UrlD05 == <<"https:", "quote", "D05.SI", "history">>
InputItems == {TickerD05, TickerO39, UrlD05}

Scripts == {"extract", "url_extract"}

BoundedSeq(S, n) == UNION {[1..k -> S] : k \in 0..n}

startswith_http(user_input) == Len(user_input) > 0 /\ user_input[1] = "https:"

\* path.split('/quote/')[1].split('/')[0], IndexError -> custom_url_<time>
ticker_from_url(url) ==
  LET hits == {i \in 1..Len(url) : url[i] = "quote"}
  IN  IF hits = {} THEN <<"custom_url">>
      ELSE LET i == CHOOSE j \in hits : \A k \in hits : j <= k
           IN  IF i < Len(url) THEN <<url[i + 1]>> ELSE <<"">>

\* the key under which main stores an item's DataFrame
ticker_label(s, user_input) ==
  IF s = "url_extract" /\ startswith_http(user_input)
    THEN ticker_from_url(user_input)
    ELSE user_input

(* ----------------------------- documents ------------------------------- *)
HeaderKeys == {"date", "open", "high", "low", "close", "volume"}

\* A run of `times` consecutive <tr> of one shape: ntd <td> cells, an event
\* marker in the second cell or not, a date cell pandas can parse or not.
RowRun(n, ev, ok, k) == [ntd |-> n, event |-> ev, dateOk |-> ok, times |-> k]

Table(th, keys, dt, im, rs) ==
  [hasThead |-> th, headerKeys |-> keys, dataTest |-> dt, inMain |-> im, rows |-> rs]

AdTable == Table(FALSE, {}, FALSE, FALSE, <<RowRun(2, FALSE, FALSE, 1)>>)

HistTable(n) ==
  Table(TRUE, HeaderKeys, TRUE, TRUE,
        IF n = 0 THEN <<RowRun(7, TRUE, TRUE, 1)>>
                 ELSE <<RowRun(7, TRUE, TRUE, 1), RowRun(7, FALSE, TRUE, n)>>)

\* a history table whose rows are a short row and a row whose date is no date
UndatedTable ==
  Table(TRUE, HeaderKeys, TRUE, TRUE,
        <<RowRun(5, FALSE, TRUE, 1), RowRun(7, FALSE, FALSE, 1)>>)

\* a history table whose only row is a price row of 6 <td> cells
SixCellTable ==
  Table(TRUE, HeaderKeys, TRUE, TRUE, <<RowRun(6, FALSE, TRUE, 1)>>)

LoadLevels == (0..MaxSmall) \cup {five_y_threshold - 1, five_y_threshold}

PageDocs == {<<>>, <<AdTable>>, <<AdTable, UndatedTable>>, <<AdTable, SixCellTable>>}
              \cup {<<AdTable, HistTable(n)>> : n \in LoadLevels}

RECURSIVE SumRuns(_, _)
SumRuns(rs, minTd) ==
  IF rs = <<>> THEN 0
  ELSE (IF Head(rs).ntd >= minTd THEN Head(rs).times ELSE 0) + SumRuns(Tail(rs), minTd)

RECURSIVE count_rows_of_tables(_)
count_rows_of_tables(doc) ==
  IF doc = <<>> THEN 0
  ELSE SumRuns(Head(doc).rows, min_td_count) + count_rows_of_tables(Tail(doc))

\* rows matched by "table tbody tr" with at least 6 <td>
count_data_rows(doc) == count_rows_of_tables(doc)

has_table(doc) == Len(doc) > 0

\* what the page can show after one more scroll to the bottom
LazyLoad(doc, lazy) ==
  IF lazy
    THEN {q \in PageDocs : Len(q) = Len(doc) /\ count_data_rows(q) >= count_data_rows(doc)}
    ELSE PageDocs

(* ------------------------- parse_table_html ---------------------------- *)
\* the first of the matching positions in document order, 0 (None) without a match
FirstIndex(hits) ==
  IF hits = {} THEN 0 ELSE CHOOSE i \in hits : \A j \in hits : i <= j

\* the header test with any() in place of all()
header_matches_any(tbl) == tbl.hasThead /\ \E k \in HeaderKeys : k \in tbl.headerKeys
header_matches(tbl) == tbl.hasThead /\ \A k \in HeaderKeys : k \in tbl.headerKeys

in_main_content(tbl) == tbl.inMain
has_data_test(tbl) == tbl.dataTest

\* extract.py: header heuristic, then '#main-content-wrapper table'
select_table_extract(doc) ==
  LET byHeader == FirstIndex({i \in 1..Len(doc) : header_matches(doc[i])})
  IN  IF byHeader # 0 THEN byHeader
      ELSE FirstIndex({i \in 1..Len(doc) : in_main_content(doc[i])})

\* url_extract.py: data-test="historical-prices", then header heuristic
select_table_url_extract(doc) ==
  LET byAttr == FirstIndex({i \in 1..Len(doc) : has_data_test(doc[i])})
  IN  IF byAttr # 0 THEN byAttr
      ELSE FirstIndex({i \in 1..Len(doc) : header_matches(doc[i])})

select_table(s, doc) ==
  IF s = "extract" THEN select_table_extract(doc) ELSE select_table_url_extract(doc)

min_td(s) == IF s = "extract" THEN min_td_extract ELSE min_td_url_extract

RECURSIVE kept_rows_with_events(_, _)
kept_rows_with_events(rs, minTd) ==
  IF rs = <<>> THEN <<>>
  ELSE LET r == Head(rs)
       IN  (IF r.ntd >= minTd /\ r.times > 0 THEN <<r>> ELSE <<>>)
             \o kept_rows_with_events(Tail(rs), minTd)

RECURSIVE kept_rows(_, _)
\* rows that pass the <td> count filter and the Dividend / Stock Split filter
kept_rows(rs, minTd) ==
  IF rs = <<>> THEN <<>>
  ELSE LET r == Head(rs)
       IN  (IF r.ntd >= minTd /\ ~r.event /\ r.times > 0 THEN <<r>> ELSE <<>>)
             \o kept_rows(Tail(rs), minTd)

RECURSIVE records_of(_)
\* rows left after pd.to_datetime(errors='coerce') and dropna(subset=['Date'])
records_of(rs) ==
  IF rs = <<>> THEN 0
  ELSE (IF Head(rs).dateOk THEN Head(rs).times ELSE 0) + records_of(Tail(rs))

\* url_extract.py appends all cells of a row: a row of more than 7 cells makes
\* pd.DataFrame(rows, columns=<7 names>) raise
frame_raises(s, rs) ==
  s = "url_extract" /\ \E i \in 1..Len(rs) : rs[i].ntd > 7

parse_table_html(s, doc) ==
  LET t == select_table(s, doc)
  IN  IF t = 0 THEN [raised |-> TRUE, table |-> 0, records |-> 0]
      ELSE LET rs == kept_rows(doc[t].rows, min_td(s))
           IN  IF frame_raises(s, rs) THEN [raised |-> TRUE, table |-> t, records |-> 0]
               ELSE [raised |-> FALSE, table |-> t, records |-> records_of(rs)]

(* ----------------------- cell strings and coercion ----------------------- *)
\* A cell string is the sequence of its characters, as get_text(strip=True)
\* returns it: no leading or trailing whitespace.
MaxLen == 3
Alphabet == {"1", "5", ",", ".", "-", "N", "/", "A", "a"}
Digits == {"0", "1", "2", "3", "4", "5", "6", "7", "8", "9"}

digit_value(c) ==
  CASE c = "0" -> 0 [] c = "1" -> 1 [] c = "2" -> 2 [] c = "3" -> 3 [] c = "4" -> 4
    [] c = "5" -> 5 [] c = "6" -> 6 [] c = "7" -> 7 [] c = "8" -> 8 [] c = "9" -> 9

\* Floats are fixed-point numbers: the integer is the value times Scale.
FracDigits == 5
Scale == 10 ^ FracDigits

\* Python values a cell coerces to: a number, None, or an exception leaving
\* the function.
Num(v) == [kind |-> "num", val |-> v]
None == [kind |-> "None", val |-> 0]
Raised == [kind |-> "raise", val |-> 0]

strip_nothing(x) == x

\* x.replace(',', '')
strip_commas(x) == SelectSeq(x, LAMBDA c : c # ",")

\* x in ('', '-', 'N/A')
na_literal(x) == x \in {<<>>, <<"-">>, <<"N", "/", "A">>}

unsigned(x) == IF x # <<>> /\ x[1] \in {"-", "+"} THEN Tail(x) ELSE x

\* The texts float() accepts among those without whitespace, exponent,
\* underscore or letters: an optional sign, digits with at most one point,
\* at least one digit.
float_accepts(x) ==
  LET b == unsigned(x)
  IN /\ \A i \in 1..Len(b) : b[i] \in Digits \cup {"."}
     /\ Cardinality({i \in 1..Len(b) : b[i] = "."}) <= 1
     /\ \E i \in 1..Len(b) : b[i] \in Digits

RECURSIVE digits_value(_)
digits_value(ds) ==
  IF ds = <<>> THEN 0
  ELSE 10 * digits_value(SubSeq(ds, 1, Len(ds) - 1)) + digit_value(ds[Len(ds)])

\* float(x) of an accepted text, times Scale
float_value(x) ==
  LET b == unsigned(x)
      dots == {i \in 1..Len(b) : b[i] = "."}
      dot == IF dots = {} THEN Len(b) + 1 ELSE CHOOSE i \in dots : TRUE
      whole == SubSeq(b, 1, dot - 1)
      frac == SubSeq(b, dot + 1, Len(b))
      mag == digits_value(whole) * Scale
             + (digits_value(frac) * Scale) \div (10 ^ Len(frac))
  IN IF x[1] = "-" THEN 0 - mag ELSE mag

\* float(x): a number, or ValueError
float(x) == IF float_accepts(x) THEN Num(float_value(x)) ELSE Raised

\* int(f): truncation toward zero
int(f) ==
  IF f.kind # "num" THEN f
  ELSE IF f.val >= 0 THEN Num(f.val \div Scale) ELSE Num(0 - ((0 - f.val) \div Scale))

except_nothing(r) == r

\* try: ... except Exception: return None
except_return_None(r) == IF r.kind = "raise" THEN None ELSE r

to_float(x) ==
  LET y == strip_commas(x)
  IN except_return_None(IF na_literal(y) THEN None ELSE float(y))

to_int(x) ==
  LET y == strip_commas(x)
  IN except_return_None(IF na_literal(y) THEN None ELSE int(float(y)))

\* .round(4)
round_decimals == 4

\* round(v, round_decimals) of a fixed-point number, ties to even as numpy rounds
round4(v) ==
  LET unit == Scale \div (10 ^ round_decimals)
      q == v \div unit
      r == v % unit
  IN IF 2 * r < unit THEN q * unit
     ELSE IF 2 * r > unit THEN (q + 1) * unit
     ELSE IF q % 2 = 0 THEN q * unit ELSE (q + 1) * unit

(* --------------------- rows of the selected table ----------------------- *)
MaxRows == 3

\* A <tr> is its date cell (the first direct text node of the <td>, empty when
\* the text sits in a child element, and the text of the whole cell) and the
\* texts of its other <td> cells.
Tr(direct, full, rest) == [direct |-> direct, full |-> full, rest |-> rest]

Text_Jan_1 == <<"J", "a", "n", " ", "1">>
Text_Jan_2 == <<"J", "a", "n", " ", "2">>
Text_Jan_3 == <<"J", "a", "n", " ", "3">>
Text_junk == <<"j", "u", "n", "k">>
Text_blank == <<" ">>
Text_10_5 == <<"1", "0", ".", "5">>
Text_9_25 == <<"9", ".", "2", "5">>
Text_0_00005 == <<"0", ".", "0", "0", "0", "0", "5">>
Text_Dividend == <<"D", "i", "v", "i", "d", "e", "n", "d">>
Text_Stock_Split == <<"S", "t", "o", "c", "k", " ", "S", "p", "l", "i", "t">>
Text_0_5_Dividend == <<"0", ".", "5", " ">> \o Text_Dividend
Text_2_1_Stock_Split == <<"2", ":", "1", " ">> \o Text_Stock_Split

PriceRow == Tr(Text_Jan_3, Text_Jan_3,
               <<Text_10_5, Text_10_5, Text_9_25, Text_9_25, Text_9_25, <<"2", ",", "0", "0", "0">> >>)
NullRow == Tr(Text_Jan_2, Text_Jan_2, <<<<"-">>, <<"-">>, <<"-">>, <<"-">>, <<"-">>, <<"-">> >>)
CombinedRow == Tr(Text_Jan_1, Text_Jan_1,
                  <<<<"1", ",", "2", "3", "4", ".", "5", "0">>, <<"1", ",", "2", "3", "4", ".", "5", "0">>,
                    Text_10_5, Text_10_5, Text_10_5>>)
SpanDateRow == Tr(<<>>, Text_Jan_1,
                  <<Text_0_00005, Text_10_5, Text_0_00005, Text_10_5, Text_10_5, <<"5">> >>)
DividendRow == Tr(Text_Jan_2, Text_Jan_2,
                  <<Text_0_5_Dividend, <<>>, <<>>, <<>>, <<>>, <<>> >>)
SplitRow == Tr(Text_Jan_2, Text_Jan_2,
               <<Text_2_1_Stock_Split, <<>>, <<>>, <<>>, <<>>, <<>> >>)
ShortDividendRow == Tr(Text_Jan_2, Text_Jan_2, <<Text_0_5_Dividend>>)
ShortRow == Tr(Text_Jan_3, Text_Jan_3, <<Text_10_5, Text_10_5, Text_9_25, Text_9_25>>)
BadDateRow == Tr(Text_junk, Text_junk,
                 <<Text_10_5, Text_10_5, Text_9_25, Text_9_25, Text_9_25, <<"5">> >>)
WideRow == Tr(Text_Jan_3, Text_Jan_3,
              <<Text_10_5, Text_10_5, Text_9_25, Text_9_25, Text_9_25, <<"5">>, <<"a">> >>)

\* <td> <span>Jan 1</span></td>: the first child of the date cell is a
\* whitespace text node, the date is in a child element
SpacedDateRow == Tr(Text_blank, Text_Jan_1,
                    <<Text_10_5, Text_10_5, Text_9_25, Text_9_25, Text_9_25, <<"5">> >>)

RowKinds == {PriceRow, NullRow, CombinedRow, SpanDateRow, DividendRow, SplitRow,
             ShortDividendRow, ShortRow, BadDateRow, WideRow, SpacedDateRow}

\* len(tr.find_all('td'))
td_count(tr) == 1 + Len(tr.rest)

\* extract.py: date_cell.find(text=True, recursive=False), else
\* date_cell.get_text(strip=True); url_extract.py: c.get_text(strip=True)
date_text(s, tr) ==
  IF s = "extract" /\ tr.direct # <<>> THEN tr.direct ELSE tr.full

\* cells = [date_text] + [c.get_text(strip=True) for c in td_cells[1:]]
cells_of(s, tr) == <<date_text(s, tr)>> \o tr.rest

\* pat in text
contains(text, pat) ==
  \E i \in 0..(Len(text) - Len(pat)) : SubSeq(text, i + 1, i + Len(pat)) = pat

is_event_dividend_only(cells) == Len(cells) > 1 /\ contains(cells[2], Text_Dividend)

\* len(cells) > 1 and ('Dividend' in cells[1] or 'Stock Split' in cells[1])
is_event(cells) ==
  Len(cells) > 1 /\ (contains(cells[2], Text_Dividend) \/ contains(cells[2], Text_Stock_Split))

\* extract.py appends [date, open_, high, low, close, adj_close, volume], with
\* volume '' for a row of six cells; url_extract.py appends cells as they are.
row_of(s, cells) ==
  IF s = "extract"
  THEN SubSeq(cells, 1, 6) \o <<IF Len(cells) > 6 THEN cells[7] ELSE <<>> >>
  ELSE cells

\* `for tr in table.select('tbody tr'):` from the i-th <tr> on: the list
\* `rows`, each entry with the position of its <tr>
RECURSIVE table_rows(_, _, _)
table_rows(s, body, i) ==
  IF i > Len(body) THEN <<>>
  ELSE LET cells == cells_of(s, body[i])
       IN IF td_count(body[i]) < min_td(s) \/ is_event(cells)
          THEN table_rows(s, body, i + 1)
          ELSE <<[tr |-> i, cells |-> row_of(s, cells)]>> \o table_rows(s, body, i + 1)

\* pd.DataFrame(rows, columns=[seven names]) raises ValueError when a row
\* does not have seven cells
DataFrame_raises(rws) == \E i \in 1..Len(rws) : Len(rws[i].cells) # 7

\* pd.to_datetime(text, errors='coerce') as a day number, NaT for a text
\* that is no date
NaT == 0
to_datetime(text) ==
  CASE text = Text_Jan_1 -> 1
    [] text = Text_Jan_2 -> 2
    [] text = Text_Jan_3 -> 3
    [] OTHER -> NaT

\* the type conversions of one row
convert(row) ==
  [tr |-> row.tr,
   Date |-> to_datetime(row.cells[1]),
   Open |-> to_float(row.cells[2]),
   High |-> to_float(row.cells[3]),
   Low |-> to_float(row.cells[4]),
   Close |-> to_float(row.cells[5]),
   AdjClose |-> to_float(row.cells[6]),
   Volume |-> to_int(row.cells[7])]

\* df.dropna(subset=['Date'])
dropna(recs) == SelectSeq(recs, LAMBDA r : r.Date # NaT)

permutations(n) ==
  {p \in [1..n -> 1..n] : \A i, j \in 1..n : p[i] = p[j] => i = j}

sort_values_skipped(recs) == {recs}

\* df.sort_values('Date').reset_index(drop=True): the sort is not stable, so
\* records of equal date come out in any order
sort_values(recs) ==
  {[i \in 1..Len(recs) |-> recs[p[i]]] : p \in
     {q \in permutations(Len(recs)) :
        \A i, j \in 1..Len(recs) : i < j => recs[q[i]].Date <= recs[q[j]].Date}}

daily_return_unrounded(rec) ==
  IF rec.Close.kind = "num" /\ rec.Open.kind = "num"
  THEN Num(rec.Close.val - rec.Open.val) ELSE None

\* (df['Close'] - df['Open']).round(4) for one record: NaN when either is
\* None / NaN
daily_return(rec) ==
  IF rec.Close.kind = "num" /\ rec.Open.kind = "num"
  THEN Num(round4(rec.Close.val - rec.Open.val)) ELSE None

\* A column whose every to_float result is None has dtype object, and so has
\* the difference it takes part in.
object_difference(recs) ==
  \/ \A i \in 1..Len(recs) : recs[i].Open.kind = "None"
  \/ \A i \in 1..Len(recs) : recs[i].Close.kind = "None"

with_daily_return(recs) ==
  [i \in 1..Len(recs) |->
     [tr |-> recs[i].tr, Date |-> recs[i].Date, Open |-> recs[i].Open,
      High |-> recs[i].High, Low |-> recs[i].Low, Close |-> recs[i].Close,
      AdjClose |-> recs[i].AdjClose, Volume |-> recs[i].Volume,
      DailyReturn |-> daily_return(recs[i])]]

\* Lines 284-322 of parse_table_html on the list rows: the outcomes it can
\* have, each the exception raised ("none" if it returned) and the records
\* of the returned frame.
normalize(rws, objectRoundRaises) ==
  IF DataFrame_raises(rws) THEN {[error |-> "ValueError", frame |-> <<>>]}
  ELSE IF rws = <<>> THEN {[error |-> "none", frame |-> <<>>]}
  ELSE LET converted == [i \in 1..Len(rws) |-> convert(rws[i])]
           dated == dropna(converted)
       IN IF objectRoundRaises /\ dated # <<>> /\ object_difference(converted)
          THEN {[error |-> "TypeError", frame |-> <<>>]}
          ELSE {[error |-> "none", frame |-> with_daily_return(sorted)] :
                  sorted \in sort_values(dated)}

\* the variables of parse_table_html's row handling before it is called
NormInit ==
  /\ trs = <<>> /\ rows = <<>> /\ frame = <<>> /\ parseError = "none"
  /\ roundObjectRaises = FALSE
  /\ cell = <<>> /\ asFloat = None /\ asInt = None

(* ------------------------- input resolution ----------------------------- *)
\* config.json: kind "missing" (open raises), "unreadable" (json.load
\* raises), "non_object" (valid JSON that is no object: cfg.get raises) or
\* "object", which has the key 'tickers' with an array of strings or not
Config(kind, hasKey, value) == [kind |-> kind, hasKey |-> hasKey, tickers |-> value]
ConfigMissing == Config("missing", FALSE, <<>>)

\* the list both scripts fall back to
DefaultTickers == <<TickerD05, TickerO39, TickerU11>>

\* the try block after the argv test: cfg.get('tickers', default), and the
\* default for every exception
config_tickers(c) ==
  IF c.kind = "object" /\ c.hasKey THEN c.tickers ELSE DefaultTickers

get_tickers_config_first(a, c) ==
  IF c.kind = "object" /\ c.hasKey THEN c.tickers
  ELSE IF Len(a) > 0 THEN a ELSE DefaultTickers

\* get_tickers_from_args_or_config / get_inputs_from_args_or_config
get_tickers(a, c) ==
  IF Len(a) > 0 THEN a ELSE config_tickers(c)

\* accept_cookies_if_present and the input resolution before they are called
\* the variables of the summary and of the API fetchers before they run
FetcherIdle ==
  /\ latest_close = None
  /\ data = <<>> /\ successful = <<>> /\ calls = 0 /\ waited = 0

ExtraIdle ==
  /\ xpaths = <<>> /\ xp_i = 1 /\ clicks = 0
  /\ argv = <<>> /\ config = ConfigMissing
  /\ FetcherIdle

(* ------------------------------- Init ---------------------------------- *)
ItemInit ==
  /\ attempt = 0 /\ clickFailures = 0 /\ degraded = FALSE
  /\ refreshes = 0 /\ dropdown = "unverified"
  /\ lastMeasure = -1 /\ equalRun = 0
  /\ loop_i = 0 /\ last_count = -1 /\ stable_rounds = 0
  /\ measures = 0 /\ scrolls = 0 /\ firstZero = FALSE
  /\ loaderExit = "none" /\ loaderReturn = "pending"
  /\ df = -1 /\ selected = -1 /\ lastError = "none"

\* main after get_tickers_from_args_or_config, before build_driver.  Batches
\* are explored against lazily loading pages; single items also against pages
\* that report an arbitrary row count at every measurement.
Init ==
  /\ script \in Scripts
  /\ tickers \in BoundedSeq(InputItems, MaxItems)
  /\ lazyOnly \in BOOLEAN
  /\ (~lazyOnly => Len(tickers) = 1)
  /\ pc = "build_driver"
  /\ idx = 1
  /\ driverLive = FALSE /\ quitCount = 0 /\ pendingAbort = FALSE
  /\ all_data = <<>> /\ failed = <<>>
  /\ page = <<>>
  /\ ItemInit
  /\ outcomes = <<>> /\ attempted = <<>>
  /\ sinceItemEnd = 0 /\ navDelay = 0
  /\ exitCode = "running" /\ exported = FALSE
  /\ orphans = 0
  /\ NormInit
  /\ ExtraIdle

(* ------------------------------- main ---------------------------------- *)
ItemPcs == {"navigate", "consent", "wait_table", "click_init", "click_locate",
            "click_open_verify", "click_5y", "click_close_verify",
            "click_reload_verify", "click_except", "scroll", "page_source",
            "returned", "polite_sleep"}

\* driver = build_driver(), Chrome branch: webdriver.Chrome(...), the CDP
\* command and set_page_load_timeout succeed; all_data = {}; failed = []
build_driver ==
  /\ pc = "build_driver"
  /\ driverLive' = TRUE
  /\ pc' = "loop"
  /\ UNCHANGED <<idx, quitCount, pendingAbort, all_data, failed, outcomes, attempted,
                 sinceItemEnd, navDelay, exitCode, exported>>
  /\ UNCHANGED <<inputVars, normVars, consentVars, argVars, fetcherVars, orphans, page, clickVars, scrollVars, parseVars, lastError>>

\* ChromeDriverManager().install() or webdriver.Chrome(...) raises: no
\* session was started, `except Exception` logs and control reaches the
\* Edge fallback
build_driver_chrome_unavailable ==
  /\ pc = "build_driver"
  /\ pc' = "build_edge"
  /\ UNCHANGED <<mainVars, inputVars, normVars, consentVars, argVars, fetcherVars, orphans, page, clickVars, scrollVars,
                 parseVars, lastError>>

\* webdriver.Chrome(...) returned a session and driver.execute_cdp_cmd(...)
\* or driver.set_page_load_timeout(60) raises: the same `except Exception`
\* logs and control reaches the Edge fallback; nothing quits the Chrome
\* session
build_driver_chrome_setup_raises ==
  /\ pc = "build_driver"
  /\ orphans' = orphans + 1
  /\ pc' = "build_edge"
  /\ UNCHANGED <<mainVars, inputVars, normVars, consentVars, argVars, fetcherVars, page, clickVars,
                 scrollVars, parseVars, lastError>>

\* driver = webdriver.Edge(...); driver.set_page_load_timeout(60); return driver
build_driver_edge ==
  /\ pc = "build_edge"
  /\ driverLive' = TRUE
  /\ pc' = "loop"
  /\ UNCHANGED <<idx, quitCount, pendingAbort, all_data, failed, outcomes, attempted,
                 sinceItemEnd, navDelay, exitCode, exported>>
  /\ UNCHANGED <<inputVars, normVars, consentVars, argVars, fetcherVars, orphans, page, clickVars, scrollVars, parseVars, lastError>>

\* webdriver.Edge(...) raises: the exception leaves build_driver and main,
\* whose call of build_driver is outside the try
build_driver_edge_unavailable ==
  /\ pc = "build_edge"
  /\ exitCode' = "WebDriverException"
  /\ pc' = "no_driver"
  /\ UNCHANGED <<idx, driverLive, quitCount, pendingAbort, all_data, failed, outcomes,
                 attempted, sinceItemEnd, navDelay, exported>>
  /\ UNCHANGED <<inputVars, normVars, consentVars, argVars, fetcherVars, orphans, page, clickVars, scrollVars, parseVars, lastError>>

\* `for ticker in tickers:` takes the next item and calls scrape_ticker / scrape_input
main_next_item ==
  /\ pc = "loop"
  /\ idx <= Len(tickers)
  /\ attempted' = Append(attempted, tickers[idx])
  /\ navDelay' = sinceItemEnd
  /\ attempt' = 0 /\ clickFailures' = 0 /\ degraded' = FALSE
  /\ refreshes' = 0 /\ dropdown' = "unverified"
  /\ lastMeasure' = -1 /\ equalRun' = 0
  /\ loop_i' = 0 /\ last_count' = -1 /\ stable_rounds' = 0
  /\ measures' = 0 /\ scrolls' = 0 /\ firstZero' = FALSE
  /\ loaderExit' = "none" /\ loaderReturn' = "pending"
  /\ df' = -1 /\ selected' = -1 /\ lastError' = "none"
  /\ pc' = "navigate"
  /\ UNCHANGED <<idx, driverLive, quitCount, pendingAbort, all_data, failed, outcomes,
                 sinceItemEnd, exitCode, exported>>
  /\ UNCHANGED <<inputVars, normVars, consentVars, argVars, fetcherVars, orphans, page>>

\* the for loop is exhausted: control reaches the finally clause
main_loop_end ==
  /\ pc = "loop"
  /\ idx > Len(tickers)
  /\ pc' = "finally"
  /\ UNCHANGED <<mainVars, inputVars, normVars, consentVars, argVars, fetcherVars, orphans, page, clickVars, scrollVars, parseVars, lastError>>

\* `except Exception as e:` of main: the item is recorded as failed and the loop goes on
\* the except clause leaving the loop (as if the try enclosed the for statement)
main_except_stop(detail) ==
  /\ failed' = Append(failed, tickers[idx])
  /\ outcomes' = Append(outcomes, "err")
  /\ lastError' = detail
  /\ sinceItemEnd' = 0
  /\ idx' = idx + 1
  /\ pc' = "finally"
  /\ UNCHANGED <<driverLive, quitCount, pendingAbort, all_data, attempted, navDelay,
                 exitCode, exported>>

\* the except clause that also throws away what was collected so far
main_except_discards(detail) ==
  /\ failed' = Append(failed, tickers[idx])
  /\ all_data' = <<>>
  /\ outcomes' = Append(outcomes, "err")
  /\ lastError' = detail
  /\ sinceItemEnd' = 0
  /\ idx' = idx + 1
  /\ pc' = "loop"
  /\ UNCHANGED <<driverLive, quitCount, pendingAbort, attempted, navDelay,
                 exitCode, exported>>

\* the except clause that logs the error without `failed.append(ticker)`
main_except_unrecorded(detail) ==
  /\ outcomes' = Append(outcomes, "err")
  /\ lastError' = detail
  /\ sinceItemEnd' = 0
  /\ idx' = idx + 1
  /\ pc' = "loop"
  /\ UNCHANGED <<driverLive, quitCount, pendingAbort, all_data, failed, attempted, navDelay,
                 exitCode, exported>>

main_except(detail) ==
  /\ failed' = Append(failed, tickers[idx])
  /\ outcomes' = Append(outcomes, "err")
  /\ lastError' = detail
  /\ sinceItemEnd' = 0
  /\ idx' = idx + 1
  /\ pc' = "loop"
  /\ UNCHANGED <<driverLive, quitCount, pendingAbort, all_data, attempted, navDelay,
                 exitCode, exported>>

dict_set(d, k, v) == [x \in (DOMAIN d) \cup {k} |-> IF x = k THEN v ELSE d[x]]

df_never_empty(n) == FALSE

df_empty(n) == n = 0

\* `if df is None or df.empty: raise ValueError(...)`, else `all_data[ticker] = df`
main_collect ==
  /\ pc = "returned"
  /\ IF df_empty(df)
       THEN main_except("no_data")
       ELSE /\ all_data' = dict_set(all_data, ticker_label(script, tickers[idx]), df)
            /\ outcomes' = Append(outcomes, "ok")
            /\ sinceItemEnd' = 0
            /\ pc' = "polite_sleep"
            /\ UNCHANGED <<idx, driverLive, quitCount, pendingAbort, failed, attempted,
                           navDelay, exitCode, exported, lastError>>
  /\ UNCHANGED <<inputVars, normVars, consentVars, argVars, fetcherVars, orphans, page, clickVars, scrollVars, parseVars>>

\* time.sleep(2) at the end of the try body
main_sleep ==
  /\ pc = "polite_sleep"
  /\ sinceItemEnd' = polite_delay
  /\ idx' = idx + 1
  /\ pc' = "loop"
  /\ UNCHANGED <<driverLive, quitCount, pendingAbort, all_data, failed, outcomes,
                 attempted, navDelay, exitCode, exported>>
  /\ UNCHANGED <<inputVars, normVars, consentVars, argVars, fetcherVars, orphans, page, clickVars, scrollVars, parseVars, lastError>>

\* the abort without the finally clause: the exception leaves main at once
KeyboardInterrupt_unguarded ==
  /\ pc \in ItemPcs
  /\ pendingAbort' = TRUE
  /\ exitCode' = "KeyboardInterrupt"
  /\ pc' = "propagated"
  /\ UNCHANGED <<idx, driverLive, quitCount, all_data, failed, outcomes, attempted,
                 sinceItemEnd, navDelay, exported>>
  /\ UNCHANGED <<inputVars, normVars, consentVars, argVars, fetcherVars, orphans, page, clickVars, scrollVars, parseVars, lastError>>

\* A BaseException that `except Exception` does not catch, raised while an
\* item is processed, leaves the loop without the rest of the try body
KeyboardInterrupt ==
  /\ pc \in ItemPcs
  /\ pendingAbort' = TRUE
  /\ pc' = "finally"
  /\ UNCHANGED <<idx, driverLive, quitCount, all_data, failed, outcomes, attempted,
                 sinceItemEnd, navDelay, exitCode, exported>>
  /\ UNCHANGED <<inputVars, normVars, consentVars, argVars, fetcherVars, orphans, page, clickVars, scrollVars, parseVars, lastError>>

\* finally: driver.quit(); a pending exception then goes on propagating
main_finally ==
  /\ pc = "finally"
  /\ quitCount' = quitCount + 1
  /\ driverLive' = FALSE
  /\ IF pendingAbort
       THEN pc' = "propagated" /\ exitCode' = "KeyboardInterrupt"
       ELSE pc' = "check" /\ UNCHANGED exitCode
  /\ UNCHANGED <<idx, pendingAbort, all_data, failed, outcomes, attempted,
                 sinceItemEnd, navDelay, exported>>
  /\ UNCHANGED <<inputVars, normVars, consentVars, argVars, fetcherVars, orphans, page, clickVars, scrollVars, parseVars, lastError>>

\* the exit test looking at failed instead of all_data
no_data_any_failed(d) == Len(failed) > 0

\* `if not all_data:`
no_data(d) == DOMAIN d = {}

\* sys.exit(1) when nothing was scraped, else the workbook is written
main_exit_or_export ==
  /\ pc = "check"
  /\ IF no_data(all_data)
       THEN exitCode' = "1" /\ pc' = "exited" /\ UNCHANGED exported
       ELSE exported' = TRUE /\ exitCode' = "0" /\ pc' = "done"
  /\ UNCHANGED <<idx, driverLive, quitCount, pendingAbort, all_data, failed, outcomes,
                 attempted, sinceItemEnd, navDelay>>
  /\ UNCHANGED <<inputVars, normVars, consentVars, argVars, fetcherVars, orphans, page, clickVars, scrollVars, parseVars, lastError>>

(* --------------------- scrape_ticker / scrape_input -------------------- *)
\* driver.get(url): the page loads, or the page-load timeout raises
driver_get ==
  /\ pc = "navigate"
  /\ \E loaded \in BOOLEAN :
       IF loaded
         THEN /\ \E q \in PageDocs : page' = q
              /\ pc' = "consent"
              /\ UNCHANGED <<mainVars, lastError>>
         ELSE /\ main_except("navigation_timeout")
              /\ UNCHANGED page
  /\ UNCHANGED <<inputVars, normVars, consentVars, argVars, fetcherVars, orphans, clickVars, scrollVars, parseVars>>

\* every failure inside is swallowed; the banner is clicked or not
accept_cookies_if_present ==
  /\ pc = "consent"
  /\ pc' = "wait_table"
  /\ UNCHANGED <<mainVars, inputVars, normVars, consentVars, argVars, fetcherVars, orphans, page, clickVars, scrollVars, parseVars, lastError>>

\* scrape_ticker without its call of click_5y_and_wait
wait_table_then_scroll ==
  /\ pc = "wait_table"
  /\ pc' = "scroll"
  /\ UNCHANGED <<mainVars, inputVars, normVars, consentVars, argVars, fetcherVars, orphans, page, clickVars, scrollVars, parseVars, lastError>>

\* WebDriverWait(driver, 20) for a <table>: extract.py goes on either way,
\* url_extract.py returns an empty DataFrame when there is none
wait_table ==
  /\ pc = "wait_table"
  /\ IF script = "extract"
       THEN pc' = "click_init" /\ UNCHANGED df
       ELSE IF has_table(page)
              THEN pc' = "scroll" /\ UNCHANGED df
              ELSE pc' = "returned" /\ df' = 0
  /\ UNCHANGED <<mainVars, inputVars, normVars, consentVars, argVars, fetcherVars, orphans, page, clickVars, scrollVars, selected, lastError>>

(* -------------------------- click_5y_and_wait --------------------------- *)
\* initial_count = count_data_rows(driver); the for loop starts with attempt 0
click_5y_begin ==
  /\ pc = "click_init"
  /\ attempt' = 0
  /\ pc' = "click_locate"
  /\ UNCHANGED <<mainVars, inputVars, normVars, consentVars, argVars, fetcherVars, orphans, page,
                 clickFailures, degraded, refreshes, dropdown, scrollVars, parseVars,
                 lastError>>

\* a WebDriverWait of the try body times out: control goes to the except clause
click_raise ==
  /\ pc' = "click_except"
  /\ clickFailures' = clickFailures + 1
  /\ UNCHANGED <<attempt, degraded, refreshes, dropdown>>

\* Step 1: wait for the date range button to be present, click it with JavaScript
click_locate ==
  /\ pc = "click_locate"
  /\ \E present \in BOOLEAN :
       IF present THEN pc' = "click_open_verify" /\ UNCHANGED clickVars
                  ELSE click_raise
  /\ UNCHANGED <<mainVars, inputVars, normVars, consentVars, argVars, fetcherVars, orphans, page, scrollVars, parseVars, lastError>>

\* Step 2 without the wait: the 5Y button is looked for whatever aria-hidden reads
click_open_unverified ==
  /\ pc = "click_open_verify"
  /\ pc' = "click_5y"
  /\ UNCHANGED clickVars
  /\ UNCHANGED <<mainVars, inputVars, normVars, consentVars, argVars, fetcherVars, orphans, page, scrollVars, parseVars, lastError>>

\* Step 2: wait for aria-hidden to read 'false'
click_open_verify ==
  /\ pc = "click_open_verify"
  /\ \E opened \in BOOLEAN :
       IF opened THEN /\ pc' = "click_5y"
                      /\ dropdown' = "open"
                      /\ UNCHANGED <<attempt, clickFailures, degraded, refreshes>>
                 ELSE click_raise
  /\ UNCHANGED <<mainVars, inputVars, normVars, consentVars, argVars, fetcherVars, orphans, page, scrollVars, parseVars, lastError>>

\* Step 3: wait for the 5Y button to be clickable and click it; the table reloads
click_5y ==
  /\ pc = "click_5y"
  /\ \E clickable \in BOOLEAN :
       IF clickable
         THEN /\ \E q \in PageDocs : page' = q
              /\ pc' = "click_close_verify"
              /\ UNCHANGED clickVars
         ELSE click_raise /\ UNCHANGED page
  /\ UNCHANGED <<mainVars, inputVars, normVars, consentVars, argVars, fetcherVars, orphans, scrollVars, parseVars, lastError>>

\* Step 4: wait for aria-hidden to read 'true'
click_close_verify ==
  /\ pc = "click_close_verify"
  /\ \E closed \in BOOLEAN :
       IF closed THEN /\ pc' = "click_reload_verify"
                      /\ dropdown' = "closed"
                      /\ UNCHANGED <<attempt, clickFailures, degraded, refreshes>>
                 ELSE click_raise
  /\ UNCHANGED <<mainVars, inputVars, normVars, consentVars, argVars, fetcherVars, orphans, page, scrollVars, parseVars, lastError>>

\* Step 5: wait until count_data_rows(d) > 1000, then return
click_reload_verify ==
  /\ pc = "click_reload_verify"
  /\ IF count_data_rows(page) > five_y_threshold
       THEN pc' = "scroll" /\ UNCHANGED clickVars
       ELSE click_raise
  /\ UNCHANGED <<mainVars, inputVars, normVars, consentVars, argVars, fetcherVars, orphans, page, scrollVars, parseVars, lastError>>

retry_left_inclusive(a) == a < max_retries

\* `attempt < max_retries - 1`
retry_left(a) == a < max_retries - 1

\* the except clause with the exhausted branch raising instead of returning
click_except_reraise ==
  /\ pc = "click_except"
  /\ IF retry_left(attempt)
       THEN \E q \in PageDocs :
              /\ page' = q
              /\ refreshes' = refreshes + 1
              /\ dropdown' = "unverified"
              /\ IF has_table(q)
                   THEN /\ attempt' = attempt + 1
                        /\ pc' = "click_locate"
                        /\ UNCHANGED <<clickFailures, degraded, mainVars, lastError>>
                   ELSE /\ main_except("refresh_wait_timeout")
                        /\ UNCHANGED <<attempt, clickFailures, degraded>>
       ELSE /\ main_except("range_selection_failed")
            /\ dropdown' = "unverified"
            /\ UNCHANGED <<page, attempt, clickFailures, degraded, refreshes>>
  /\ UNCHANGED <<inputVars, normVars, consentVars, argVars, fetcherVars, orphans, scrollVars, parseVars>>

\* except Exception: refresh and re-wait for a table while attempts are left
\* (a timeout of that wait is raised inside the handler and leaves the
\* function), else log and return with whatever is loaded
click_except ==
  /\ pc = "click_except"
  /\ IF retry_left(attempt)
       THEN \E q \in PageDocs :
              /\ page' = q
              /\ refreshes' = refreshes + 1
              /\ dropdown' = "unverified"
              /\ IF has_table(q)
                   THEN /\ attempt' = attempt + 1
                        /\ pc' = "click_locate"
                        /\ UNCHANGED <<clickFailures, degraded, mainVars, lastError>>
                   ELSE /\ main_except("refresh_wait_timeout")
                        /\ UNCHANGED <<attempt, clickFailures, degraded>>
       ELSE /\ degraded' = TRUE
            /\ dropdown' = "unverified"
            /\ pc' = "scroll"
            /\ UNCHANGED <<page, attempt, clickFailures, refreshes, mainVars, lastError>>
  /\ UNCHANGED <<inputVars, normVars, consentVars, argVars, fetcherVars, orphans, scrollVars, parseVars>>

(* ----------------------- scroll_to_load_all_rows ----------------------- *)
\* the loop without its budget (while True)
in_range_unbounded(i, n) == TRUE

\* `for i in range(max_loops)` has another iteration
in_range(i, n) == i < n

next_stable_rounds_no_reset(current, last, sr) ==
  IF current = last THEN sr + 1 ELSE sr

\* `if current == last_count: stable_rounds += 1 else: stable_rounds = 0`
next_stable_rounds(current, last, sr) ==
  IF current = last THEN sr + 1 ELSE 0

\* one iteration of the loop body: measure, compare, break or scroll
scroll_iteration ==
  /\ pc = "scroll"
  /\ in_range(loop_i, max_loops)
  /\ LET current == count_data_rows(page)
         sr == next_stable_rounds(current, last_count, stable_rounds)
     IN  /\ measures' = measures + 1
         /\ equalRun' = IF measures > 0 /\ current = lastMeasure THEN equalRun + 1 ELSE 1
         /\ lastMeasure' = current
         /\ firstZero' = IF loop_i = 0 THEN current = 0 ELSE firstZero
         /\ stable_rounds' = sr
         /\ IF sr >= patience
              THEN /\ pc' = "page_source"
                   /\ loaderExit' = "converged"
                   /\ loaderReturn' = "None"
                   /\ UNCHANGED <<last_count, scrolls, loop_i, page>>
              ELSE /\ last_count' = current
                   /\ scrolls' = scrolls + 1
                   /\ \E q \in LazyLoad(page, lazyOnly) : page' = q
                   /\ loop_i' = loop_i + 1
                   /\ pc' = "scroll"
                   /\ UNCHANGED <<loaderExit, loaderReturn>>
  /\ UNCHANGED <<mainVars, inputVars, normVars, consentVars, argVars, fetcherVars, orphans, clickVars, parseVars, lastError>>

\* the for loop ran out: its else clause logs and the function returns
scroll_exhausted ==
  /\ pc = "scroll"
  /\ ~in_range(loop_i, max_loops)
  /\ pc' = "page_source"
  /\ loaderExit' = "budget"
  /\ loaderReturn' = "None"
  /\ UNCHANGED <<loop_i, last_count, stable_rounds, measures, scrolls, firstZero,
                 lastMeasure, equalRun>>
  /\ UNCHANGED <<mainVars, inputVars, normVars, consentVars, argVars, fetcherVars, orphans, page, clickVars, parseVars, lastError>>

(* ------------------------ page_source and parse ------------------------ *)
\* html = driver.page_source; df = parse_table_html(html); return df
parse_page ==
  /\ pc = "page_source"
  /\ LET r == parse_table_html(script, page)
     IN  /\ selected' = r.table
         /\ IF r.raised
              THEN /\ main_except(IF r.table = 0 THEN "table_not_found" ELSE "frame_error")
                   /\ UNCHANGED df
              ELSE /\ df' = r.records
                   /\ pc' = "returned"
                   /\ UNCHANGED <<mainVars, lastError>>
  /\ UNCHANGED <<inputVars, normVars, consentVars, argVars, fetcherVars, orphans, page, clickVars, scrollVars>>

Next ==
  \/ build_driver
  \/ build_driver_chrome_unavailable
  \/ build_driver_chrome_setup_raises
  \/ build_driver_edge
  \/ build_driver_edge_unavailable
  \/ main_next_item
  \/ main_loop_end
  \/ main_collect
  \/ main_sleep
  \/ KeyboardInterrupt
  \/ main_finally
  \/ main_exit_or_export
  \/ driver_get
  \/ accept_cookies_if_present
  \/ wait_table
  \/ click_5y_begin
  \/ click_locate
  \/ click_open_verify
  \/ click_5y
  \/ click_close_verify
  \/ click_reload_verify
  \/ click_except
  \/ scroll_iteration
  \/ scroll_exhausted
  \/ parse_page

Spec == Init /\ [][Next]_vars

(* ----------------- parse_table_html on its own documents ---------------- *)
PartialKeys == HeaderKeys \ {"volume"}
OneRow == <<RowRun(7, FALSE, TRUE, 1)>>

\* tables without <thead>, with a header lacking a token, with a full header;
\* with or without data-test="historical-prices"; inside #main-content-wrapper or not
TableKinds ==
  {Table(FALSE, {}, dt, im, OneRow) : dt \in BOOLEAN, im \in BOOLEAN}
    \cup {Table(TRUE, ks, dt, im, OneRow) :
            ks \in {PartialKeys, HeaderKeys}, dt \in BOOLEAN, im \in BOOLEAN}

InitParse ==
  /\ script \in Scripts
  /\ tickers = <<TickerD05>>
  /\ lazyOnly = TRUE
  /\ pc = "parse_input"
  /\ idx = 1
  /\ driverLive = FALSE /\ quitCount = 0 /\ pendingAbort = FALSE
  /\ all_data = <<>> /\ failed = <<>>
  /\ page \in BoundedSeq(TableKinds, MaxTables)
  /\ ItemInit
  /\ outcomes = <<>> /\ attempted = <<>>
  /\ sinceItemEnd = 0 /\ navDelay = 0
  /\ exitCode = "running" /\ exported = FALSE
  /\ orphans = 0
  /\ NormInit
  /\ ExtraIdle

\* df = parse_table_html(html) for the html of the document
parse_document ==
  /\ pc = "parse_input"
  /\ LET r == parse_table_html(script, page)
     IN  /\ selected' = r.table
         /\ df' = IF r.raised THEN -1 ELSE r.records
         /\ lastError' = IF ~r.raised THEN "none"
                         ELSE IF r.table = 0 THEN "table_not_found" ELSE "frame_error"
  /\ pc' = "parsed"
  /\ UNCHANGED <<mainVars, inputVars, normVars, consentVars, argVars, fetcherVars, orphans, page, clickVars, scrollVars>>

NextParse == parse_document

SpecParse == InitParse /\ [][NextParse]_vars

(* --------------- to_float and to_int on their own ----------------------- *)
\* The cell strings: every string of at most MaxLen characters of Alphabet,
\* and the strings named below.
Text_1234_50 == <<"1", ",", "2", "3", "4", ".", "5", "0">>
Text_abc == <<"a", "b", "c">>
Text_neg_2_75 == <<"-", "2", ".", "7", "5">>
Text_2000 == <<"2", ",", "0", "0", "0">>
NamedTexts == {Text_1234_50, Text_abc, Text_neg_2_75, Text_2000}
CellTexts == BoundedSeq(Alphabet, MaxLen) \cup NamedTexts

\* the state in which one cell string is about to be coerced
PipelineIdle ==
  /\ tickers = <<TickerD05>>
  /\ lazyOnly = TRUE
  /\ idx = 1
  /\ driverLive = FALSE /\ quitCount = 0 /\ pendingAbort = FALSE
  /\ all_data = <<>> /\ failed = <<>>
  /\ page = <<>>
  /\ ItemInit
  /\ outcomes = <<>> /\ attempted = <<>>
  /\ sinceItemEnd = 0 /\ navDelay = 0
  /\ exitCode = "running" /\ exported = FALSE
  /\ orphans = 0
  /\ ExtraIdle

InitCoerce ==
  /\ PipelineIdle
  /\ script = "extract"
  /\ pc = "coerce_input"
  /\ trs = <<>> /\ rows = <<>> /\ frame = <<>> /\ parseError = "none"
  /\ roundObjectRaises = FALSE
  /\ cell \in CellTexts
  /\ asFloat = None /\ asInt = None

\* df[col].apply(to_float) and df['Volume'].apply(to_int) on one cell
coerce_cell ==
  /\ pc = "coerce_input"
  /\ asFloat' = to_float(cell)
  /\ asInt' = to_int(cell)
  /\ pc' = "coerced"
  /\ UNCHANGED <<mainVars, inputVars, consentVars, argVars, fetcherVars, orphans, page, clickVars,
                 scrollVars, parseVars, lastError, trs, rows, frame, parseError,
                 roundObjectRaises, cell>>

NextCoerce == coerce_cell

SpecCoerce == InitCoerce /\ [][NextCoerce]_vars

(* ------------- parse_table_html on the rows of one table ---------------- *)
InitRows ==
  /\ PipelineIdle
  /\ script \in Scripts
  /\ pc = "rows_input"
  /\ trs \in BoundedSeq(RowKinds, MaxRows)
  /\ rows = <<>> /\ frame = <<>> /\ parseError = "none"
  /\ roundObjectRaises \in BOOLEAN
  /\ cell = <<>> /\ asFloat = None /\ asInt = None

\* parse_table_html from `rows = []` to its return, for either script
parse_rows ==
  /\ pc = "rows_input"
  /\ rows' = table_rows(script, trs, 1)
  /\ \E out \in normalize(table_rows(script, trs, 1), roundObjectRaises) :
       /\ parseError' = out.error
       /\ frame' = out.frame
  /\ pc' = "rows_parsed"
  /\ UNCHANGED <<mainVars, inputVars, consentVars, argVars, fetcherVars, orphans, page, clickVars,
                 scrollVars, parseVars, lastError, trs, roundObjectRaises, cell, asFloat,
                 asInt>>

NextRows == parse_rows

SpecRows == InitRows /\ [][NextRows]_vars

(* ------- url_extract_EV_EBITDA.py: one ticker, from rows to summary ------ *)
\* The row loop and the normalization of url_extract_EV_EBITDA.py are those of
\* url_extract.py line by line; main adds the summary sheet.
EvEbitda == "url_extract_EV_EBITDA"

InitSummary ==
  /\ PipelineIdle
  /\ script = EvEbitda
  /\ pc = "rows_input"
  /\ trs \in BoundedSeq(RowKinds, MaxRows)
  /\ rows = <<>> /\ frame = <<>> /\ parseError = "none"
  /\ roundObjectRaises \in BOOLEAN
  /\ cell = <<>> /\ asFloat = None /\ asInt = None

\* df.iloc[0]['Close']
iloc_0_Close(recs) == recs[1].Close

\* main, lines 377-385: an exception of the scrape or an empty frame makes
\* the ticker a failure, else `all_data[ticker] = df`
ev_main_collect ==
  /\ pc = "rows_parsed"
  /\ IF parseError # "none" \/ frame = <<>>
       THEN /\ failed' = Append(failed, tickers[idx])
            /\ outcomes' = Append(outcomes, "err")
            /\ UNCHANGED all_data
       ELSE /\ all_data' = dict_set(all_data, tickers[idx], Len(frame))
            /\ outcomes' = Append(outcomes, "ok")
            /\ UNCHANGED failed
  /\ idx' = idx + 1
  /\ pc' = "check"
  /\ UNCHANGED <<driverLive, quitCount, pendingAbort, attempted, sinceItemEnd, navDelay,
                 exitCode, exported>>
  /\ UNCHANGED <<inputVars, normVars, consentVars, argVars, fetcherVars, orphans, page,
                 clickVars, scrollVars, parseVars, lastError>>

\* main, lines 389-391: `if not all_data: sys.exit(1)`
ev_main_exit ==
  /\ pc = "check"
  /\ DOMAIN all_data = {}
  /\ exitCode' = "1"
  /\ pc' = "exited"
  /\ UNCHANGED <<idx, driverLive, quitCount, pendingAbort, all_data, failed, outcomes,
                 attempted, sinceItemEnd, navDelay, exported>>
  /\ UNCHANGED <<inputVars, normVars, consentVars, argVars, fetcherVars, orphans, page,
                 clickVars, scrollVars, parseVars, lastError>>

\* main, lines 393-434: the summary row of the ticker and the export
ev_main_summary ==
  /\ pc = "check"
  /\ DOMAIN all_data # {}
  /\ latest_close' = iloc_0_Close(frame)
  /\ exported' = TRUE
  /\ exitCode' = "0"
  /\ pc' = "done"
  /\ UNCHANGED <<idx, driverLive, quitCount, pendingAbort, all_data, failed, outcomes,
                 attempted, sinceItemEnd, navDelay>>
  /\ UNCHANGED <<inputVars, normVars, consentVars, argVars, data, successful, calls, waited,
                 orphans, page, clickVars, scrollVars, parseVars, lastError>>

NextSummary ==
  \/ parse_rows
  \/ ev_main_collect
  \/ ev_main_exit
  \/ ev_main_summary

SpecSummary == InitSummary /\ [][NextSummary]_vars

(* ------- fetch_alpha_vantage.py: AlphaVantageStockFetcher.fetch_all_stocks ------- *)
\* `wait_time = 13` and `time.sleep(13)`
rate_limit_wait == 13
\* "5 calls per minute / So we need to wait 12 seconds between calls"
min_call_gap == 12

ConfigTickers == {TickerD05, TickerO39, TickerU11}

\* what fetch_daily_data returns: None, an empty frame, a frame with records
FetchResults == {"None", "empty", "frame"}

\* `df is not None and not df.empty`
has_records(r) == r = "frame"

\* `if i > 0:` with i the 0-based position of the ticker
after_first(i) == i > 1

InitAlpha ==
  /\ script = "fetch_alpha_vantage"
  /\ tickers \in BoundedSeq(ConfigTickers, MaxItems)
  /\ lazyOnly = TRUE
  /\ pc = "av_loop"
  /\ idx = 1
  /\ driverLive = FALSE /\ quitCount = 0 /\ pendingAbort = FALSE
  /\ all_data = <<>> /\ failed = <<>>
  /\ page = <<>>
  /\ ItemInit
  /\ outcomes = <<>> /\ attempted = <<>>
  /\ sinceItemEnd = 0 /\ navDelay = 0
  /\ exitCode = "running" /\ exported = FALSE
  /\ orphans = 0
  /\ NormInit
  /\ ExtraIdle

AlphaFrame ==
  UNCHANGED <<driverLive, quitCount, pendingAbort, all_data, outcomes, attempted,
              sinceItemEnd, navDelay, exitCode, exported, inputVars, normVars,
              consentVars, argVars, latest_close, orphans, page, clickVars, scrollVars,
              parseVars, lastError>>

\* lines 146-154: the next ticker, after the wait when it is not the first
av_next_ticker ==
  /\ pc = "av_loop"
  /\ idx <= Len(tickers)
  /\ waited' = IF after_first(idx) THEN waited + rate_limit_wait ELSE waited
  /\ pc' = "av_fetch"
  /\ UNCHANGED <<idx, failed, data, successful, calls>>
  /\ AlphaFrame

\* lines 157-166: fetch_daily_data(ticker) and the test of its result
av_fetch ==
  /\ pc = "av_fetch"
  /\ calls' = calls + 1
  /\ waited' = 0
  /\ \E r \in FetchResults :
       IF has_records(r)
         THEN /\ data' = dict_set(data, tickers[idx], r)
              /\ successful' = Append(successful, tickers[idx])
              /\ idx' = idx + 1
              /\ pc' = "av_loop"
         ELSE /\ pc' = "av_alt_wait"
              /\ UNCHANGED <<data, successful, idx>>
  /\ UNCHANGED failed
  /\ AlphaFrame

\* lines 168-169: the wait before the call with the '.SGX' ticker
av_alt_wait ==
  /\ pc = "av_alt_wait"
  /\ waited' = IF after_first(idx) THEN waited + rate_limit_wait ELSE waited
  /\ pc' = "av_alt_fetch"
  /\ UNCHANGED <<idx, failed, data, successful, calls>>
  /\ AlphaFrame

\* lines 171-179: fetch_daily_data(alt_ticker) and the test of its result
av_alt_fetch ==
  /\ pc = "av_alt_fetch"
  /\ calls' = calls + 1
  /\ waited' = 0
  /\ \E r \in FetchResults :
       IF has_records(r)
         THEN /\ data' = dict_set(data, tickers[idx], r)
              /\ successful' = Append(successful, tickers[idx])
              /\ UNCHANGED failed
         ELSE /\ failed' = Append(failed, tickers[idx])
              /\ UNCHANGED <<data, successful>>
  /\ idx' = idx + 1
  /\ pc' = "av_loop"
  /\ AlphaFrame

\* lines 181-191: the loop is over, `return self.data`
av_return ==
  /\ pc = "av_loop"
  /\ idx > Len(tickers)
  /\ pc' = "av_done"
  /\ UNCHANGED <<idx, failed, data, successful, calls, waited>>
  /\ AlphaFrame

NextAlpha ==
  \/ av_next_ticker
  \/ av_fetch
  \/ av_alt_wait
  \/ av_alt_fetch
  \/ av_return

SpecAlpha == InitAlpha /\ [][NextAlpha]_vars

(* ------------- fetch_real_data.py: main in sequential mode -------------- *)
\* fetch_single_stock(ticker, retry_count=3)
retry_count == 3

\* A DataFrame as far as main looks at it: its number of rows and whether it
\* is the 'Status' placeholder.
Frame(n, status) == [rows |-> n, status |-> status]

\* pd.DataFrame({'Status': ['Data retrieval failed - API rate limit reached']})
Placeholder == Frame(1, TRUE)

\* df.empty
frame_empty(f) == f.rows = 0

\* One attempt of fetch_single_stock: yf.download gave data, Ticker.history
\* gave data, both came back empty, or an exception was caught.
AttemptResults == {"download", "history", "no_data", "exception"}

\* `stock_data and any(not df.empty for df in stock_data.values())`
has_exportable(d) == DOMAIN d # {} /\ \E k \in DOMAIN d : ~frame_empty(d[k])

InitReal ==
  /\ script = "fetch_real_data"
  /\ tickers \in BoundedSeq(ConfigTickers, MaxItems)
  /\ lazyOnly = TRUE
  /\ pc = "rd_loop"
  /\ idx = 1
  /\ driverLive = FALSE /\ quitCount = 0 /\ pendingAbort = FALSE
  /\ all_data = <<>> /\ failed = <<>>
  /\ page = <<>>
  /\ ItemInit
  /\ outcomes = <<>> /\ attempted = <<>>
  /\ sinceItemEnd = 0 /\ navDelay = 0
  /\ exitCode = "running" /\ exported = FALSE
  /\ orphans = 0
  /\ NormInit
  /\ ExtraIdle

RealFrame ==
  UNCHANGED <<driverLive, quitCount, pendingAbort, all_data, outcomes, attempted,
              sinceItemEnd, navDelay, inputVars, normVars, consentVars, argVars,
              latest_close, calls, waited, orphans, page, clickFailures, degraded,
              refreshes, dropdown, scrollVars, parseVars>>

\* lines 183-190: the next ticker (after the minute's wait when it is not the first)
rd_next_ticker ==
  /\ pc = "rd_loop"
  /\ idx <= Len(tickers)
  /\ attempt' = 0
  /\ pc' = "rd_fetch"
  /\ UNCHANGED <<idx, failed, data, successful, exported, exitCode, lastError>>
  /\ RealFrame

\* lines 200-205: self.data[ticker] = the 'Status' placeholder
store_failure(d, k) == dict_set(d, k, Placeholder)

\* One attempt of fetch_single_stock (lines 69-124) and, when the function
\* returns, lines 193-205 of fetch_all_stocks_sequential.
rd_attempt ==
  /\ pc = "rd_fetch"
  /\ \E r \in AttemptResults, n \in 1..(MaxSmall + 1) :
       IF r \in {"download", "history"}
         THEN /\ data' = dict_set(data, tickers[idx], Frame(n, FALSE))
              /\ successful' = Append(successful, tickers[idx])
              /\ idx' = idx + 1
              /\ pc' = "rd_loop"
              /\ UNCHANGED <<failed, attempt>>
         ELSE IF attempt + 1 < retry_count
           THEN /\ attempt' = attempt + 1
                /\ UNCHANGED <<pc, idx, data, successful, failed>>
           ELSE /\ failed' = Append(failed, tickers[idx])
                /\ data' = store_failure(data, tickers[idx])
                /\ idx' = idx + 1
                /\ pc' = "rd_loop"
                /\ UNCHANGED <<successful, attempt>>
  /\ UNCHANGED <<exported, exitCode, lastError>>
  /\ RealFrame

\* lines 207-215: the loop is over, `return self.data`
rd_return ==
  /\ pc = "rd_loop"
  /\ idx > Len(tickers)
  /\ pc' = "rd_export_test"
  /\ UNCHANGED <<idx, attempt, failed, data, successful, exported, exitCode, lastError>>
  /\ RealFrame

\* main, lines 280-313: the export when there is something to export (an
\* exception of the exporter makes main return False), else the 'No data
\* retrieved' branch
rd_export ==
  /\ pc = "rd_export_test"
  /\ IF has_exportable(data)
       THEN \E saved \in BOOLEAN :
              /\ exported' = saved
              /\ exitCode' = IF saved THEN "0" ELSE "1"
              /\ lastError' = IF saved THEN lastError ELSE "fatal_error"
       ELSE /\ lastError' = "no_data_retrieved"
            /\ exitCode' = "0"
            /\ UNCHANGED exported
  /\ pc' = "rd_done"
  /\ UNCHANGED <<idx, attempt, failed, data, successful>>
  /\ RealFrame

NextReal ==
  \/ rd_next_ticker
  \/ rd_attempt
  \/ rd_return
  \/ rd_export

SpecReal == InitReal /\ [][NextReal]_vars

(* ---------------- accept_cookies_if_present on its own ------------------ *)
\* What the page holds for one XPath: no element ("absent"), a button that
\* can be clicked ("clickable"), one that never becomes clickable
\* ("unclickable"), one whose click() raises ("intercepted"), or a driver
\* that raises on the lookup itself ("error").
Situations == {"absent", "clickable", "unclickable", "intercepted", "error"}

\* extract.py tries five XPaths in turn, url_extract.py one combined XPath
consent_xpaths_extract == 5
consent_xpaths_url_extract == 1
consent_xpaths(s) ==
  IF s = "extract" THEN consent_xpaths_extract ELSE consent_xpaths_url_extract

consent_step_unguarded(sit) ==
  CASE sit = "absent" -> "next"
    [] sit = "clickable" -> "return"
    [] OTHER -> "raise"

\* One XPath of accept_cookies_if_present: "next" goes on with the loop (no
\* element, or the inner `except Exception: continue`), "return" leaves the
\* function (the break after a click, or the outer `except Exception: pass`)
consent_step(sit) ==
  CASE sit \in {"absent", "unclickable", "intercepted"} -> "next"
    [] sit \in {"clickable", "error"} -> "return"

\* scrape_ticker / scrape_input has navigated to its item and calls
\* accept_cookies_if_present
InitConsent ==
  /\ script \in Scripts
  /\ tickers = <<TickerD05>>
  /\ lazyOnly = TRUE
  /\ pc = "consent_loop"
  /\ idx = 1
  /\ driverLive = TRUE /\ quitCount = 0 /\ pendingAbort = FALSE
  /\ all_data = <<>> /\ failed = <<>>
  /\ page = <<AdTable, HistTable(five_y_threshold)>>
  /\ ItemInit
  /\ outcomes = <<>> /\ attempted = <<TickerD05>>
  /\ sinceItemEnd = 0 /\ navDelay = 0
  /\ exitCode = "running" /\ exported = FALSE
  /\ orphans = 0
  /\ NormInit
  /\ xpaths \in [1..consent_xpaths(script) -> Situations]
  /\ FetcherIdle
  /\ xp_i = 1 /\ clicks = 0
  /\ argv = <<>> /\ config = ConfigMissing

\* one iteration of `for xp in xpaths:` (url_extract.py: the one wait and click)
consent_xpath ==
  /\ pc = "consent_loop"
  /\ xp_i <= Len(xpaths)
  /\ LET step == consent_step(xpaths[xp_i])
     IN  /\ clicks' = IF xpaths[xp_i] = "clickable" THEN clicks + 1 ELSE clicks
         /\ IF step = "raise"
              THEN /\ main_except("consent_error")
                   /\ UNCHANGED xp_i
              ELSE /\ xp_i' = IF step = "next" THEN xp_i + 1 ELSE xp_i
                   /\ pc' = IF step = "next" THEN "consent_loop" ELSE "wait_table"
                   /\ UNCHANGED <<mainVars, lastError>>
  /\ UNCHANGED <<inputVars, normVars, argVars, fetcherVars, orphans, page, clickVars, scrollVars,
                 parseVars, xpaths>>

\* the loop over the XPaths ends without a click: the function returns
consent_none ==
  /\ pc = "consent_loop"
  /\ xp_i > Len(xpaths)
  /\ pc' = "wait_table"
  /\ UNCHANGED <<mainVars, inputVars, normVars, consentVars, argVars, fetcherVars, orphans, page,
                 clickVars, scrollVars, parseVars, lastError>>

NextConsent == consent_xpath \/ consent_none

SpecConsent == InitConsent /\ [][NextConsent]_vars

(* --------------------- input resolution on its own ---------------------- *)
Configs ==
  {ConfigMissing, Config("unreadable", FALSE, <<>>), Config("non_object", FALSE, <<>>),
   Config("object", FALSE, <<>>)}
    \cup {Config("object", TRUE, t) : t \in BoundedSeq(InputItems, MaxItems)}

\* main is entered: nothing is resolved or built yet
InitInput ==
  /\ script \in Scripts
  /\ tickers = <<>>
  /\ lazyOnly = TRUE
  /\ pc = "resolve"
  /\ idx = 1
  /\ driverLive = FALSE /\ quitCount = 0 /\ pendingAbort = FALSE
  /\ all_data = <<>> /\ failed = <<>>
  /\ page = <<>>
  /\ ItemInit
  /\ outcomes = <<>> /\ attempted = <<>>
  /\ sinceItemEnd = 0 /\ navDelay = 0
  /\ exitCode = "running" /\ exported = FALSE
  /\ orphans = 0
  /\ NormInit
  /\ xpaths = <<>> /\ xp_i = 1 /\ clicks = 0
  /\ argv \in BoundedSeq(InputItems, MaxItems)
  /\ FetcherIdle
  /\ config \in Configs

\* tickers = get_tickers_from_args_or_config()
resolve_inputs ==
  /\ pc = "resolve"
  /\ tickers' = get_tickers(argv, config)
  /\ pc' = "build_driver"
  /\ UNCHANGED <<mainVars, script, lazyOnly, normVars, consentVars, argVars, fetcherVars, orphans, page,
                 clickVars, scrollVars, parseVars, lastError>>

NextInput == resolve_inputs

SpecInput == InitInput /\ [][NextInput]_vars

(* =============================== claims ================================ *)
LoopDone == pc \in {"check", "exited", "done"}

RECURSIVE ErrItems(_, _)
ErrItems(outs, items) ==
  IF outs = <<>> THEN <<>>
  ELSE (IF Head(outs) = "err" THEN <<Head(items)>> ELSE <<>>)
         \o ErrItems(Tail(outs), Tail(items))

NumOk == Cardinality({i \in 1..Len(outcomes) : outcomes[i] = "ok"})

\* C1: an item whose processing raises is appended to failed, and the loop
\* goes on: the items are attempted once each in input order, and a batch
\* that is not aborted attempts every item, whatever failed before.
PerItemIsolation ==
  /\ Len(attempted) <= Len(tickers)
  /\ attempted = SubSeq(tickers, 1, Len(attempted))
  /\ Len(outcomes) <= Len(attempted)
  /\ failed = ErrItems(outcomes, tickers)
  /\ (pc = "loop" => Len(outcomes) = idx - 1 /\ Len(attempted) = idx - 1)
  /\ (LoopDone => attempted = tickers /\ Len(outcomes) = Len(tickers))

PerItemIsolationWitness ==
  /\ pc = "done"
  /\ Len(tickers) = 2
  /\ outcomes = <<"err", "ok">>
  /\ failed = <<tickers[1]>>
  /\ attempted = tickers

\* C2: a batch whose loop ran to its end exits with sys.exit(1) if and only
\* if no item succeeded; with at least one success it exports and returns.
FatalIffNoSuccess ==
  /\ (LoopDone /\ pc # "check" =>
        /\ (exitCode = "1") <=> (NumOk = 0)
        /\ (NumOk > 0 => exported /\ exitCode = "0" /\ pc = "done"))
  /\ (exitCode = "1" => pc = "exited" /\ ~exported)

FatalIffNoSuccessWitness ==
  /\ pc = "done"
  /\ outcomes = <<"ok", "err">>
  /\ lastError = "table_not_found"
  /\ exitCode = "0"
  /\ exported

OneResultPerItem ==
  LoopDone => Cardinality(DOMAIN all_data) + Len(failed) = Len(tickers)

\* C5: before the navigation of every item but the first, the fixed delay has
\* been slept since the previous item ended, whether it succeeded or failed.
DelayBetweenItems ==
  (pc = "consent" /\ idx > 1) => navDelay >= polite_delay

\* C6: scroll_to_load_all_rows measures and scrolls at most max_loops times,
\* can always take its next step, and when the budget runs out it returns
\* normally and the page source is parsed.
LoaderWithinBudget ==
  /\ measures <= max_loops
  /\ scrolls <= max_loops
  /\ (pc = "scroll" => /\ loaderExit = "none"
                       /\ loop_i <= max_loops
                       /\ ENABLED (scroll_iteration \/ scroll_exhausted))
  /\ (loaderExit = "budget" =>
        /\ measures = max_loops /\ scrolls = max_loops
        /\ loaderReturn = "None"
        /\ pc # "scroll"
        /\ lastError \in {"none", "table_not_found", "frame_error", "no_data"})

LoaderWithinBudgetWitness ==
  /\ loaderExit = "budget"
  /\ pc = "page_source"
  /\ measures = max_loops
  /\ stable_rounds = 0
  /\ ~lazyOnly

\* C7: when the first measurement of scroll_to_load_all_rows is 0 valid rows,
\* the function hands its caller a signal that differs from a normal return.
ZeroRowSignalPropagates ==
  (loaderExit # "none" /\ firstZero) => loaderReturn # "None"

ItemOver == Len(outcomes) = Len(attempted) /\ Len(outcomes) > 0

ClickPcs == {"click_init", "click_locate", "click_open_verify", "click_5y",
             "click_close_verify", "click_reload_verify", "click_except"}

\* C8: when all max_retries attempts of click_5y_and_wait failed, it returns
\* normally, scrape_ticker goes on to scroll and parse the loaded page, and
\* the item is a success whenever that page yields at least one record.
DegradeAfterRetryBudget ==
  /\ clickFailures <= max_retries
  /\ (clickFailures = max_retries /\ pc # "click_except" /\ ~pendingAbort => degraded)
  /\ (degraded => pc \notin ClickPcs /\ lastError # "range_selection_failed")
  /\ (degraded /\ pc \in {"returned", "polite_sleep"} =>
        loaderExit # "none" /\ selected > 0)
  /\ (degraded /\ ItemOver =>
        LET r == parse_table_html(script, page)
        IN  (~r.raised /\ r.records >= 1) =>
              /\ outcomes[Len(outcomes)] = "ok"
              /\ ticker_label(script, tickers[Len(outcomes)]) \in DOMAIN all_data)

DegradeAfterRetryBudgetWitness ==
  /\ degraded
  /\ clickFailures = max_retries
  /\ pc = "polite_sleep"
  /\ df >= 1
  /\ outcomes[Len(outcomes)] = "ok"

\* C9: no timeout inside click_5y_and_wait, the re-wait for a table after a
\* refresh included, ever makes the item fail.
RangeSelectorNeverFailsItem ==
  lastError # "refresh_wait_timeout"

HeaderQualifies(tbl) == tbl.hasThead /\ HeaderKeys \subseteq tbl.headerKeys

StructuralMatch(tbl) == IF script = "extract" THEN tbl.inMain ELSE tbl.dataTest

QualifyingTables == {i \in 1..Len(page) : HeaderQualifies(page[i])}
StructuralTables == {i \in 1..Len(page) : StructuralMatch(page[i])}
AttributeTables == {i \in 1..Len(page) : page[i].dataTest}

SelectedIsFirstOf(hits) ==
  /\ selected \in hits
  /\ \A j \in 1..(selected - 1) : j \notin hits

HeuristicThenStructural ==
  IF QualifyingTables # {} THEN SelectedIsFirstOf(QualifyingTables)
  ELSE IF StructuralTables # {} THEN SelectedIsFirstOf(StructuralTables)
  ELSE selected = 0 /\ lastError = "table_not_found"

AttributeThenHeuristic ==
  IF AttributeTables # {} THEN SelectedIsFirstOf(AttributeTables)
  ELSE IF QualifyingTables # {} THEN SelectedIsFirstOf(QualifyingTables)
  ELSE selected = 0 /\ lastError = "table_not_found"

\* C10 as stated: in both scripts the first table whose header holds all six
\* tokens is selected, the structural selector is used only when there is
\* none, and 'table not found' is raised only when that finds nothing either.
HeaderHeuristicFirst ==
  pc = "parsed" => HeuristicThenStructural

\* C10 as amended: extract.py selects by header first and falls back to
\* '#main-content-wrapper table'; url_extract.py selects the first table with
\* data-test="historical-prices" first and uses the header heuristic only when
\* there is none; each raises 'table not found' only when both find nothing.
TableSelection ==
  pc = "parsed" =>
    IF script = "extract" THEN HeuristicThenStructural ELSE AttributeThenHeuristic

TableSelectionWitness ==
  /\ pc = "parsed"
  /\ script = "url_extract"
  /\ Len(page) = 2
  /\ HeaderQualifies(page[1]) /\ ~page[1].dataTest
  /\ page[2].dataTest
  /\ selected = 2

(* ------------------------------ C15 ------------------------------------- *)
\* the cell with its thousands separators taken out
Unseparated == SelectSeq(cell, LAMBDA c : c # ",")

SentinelTexts ==
  {<<>>, <<"-">>, <<"N", "/", "A">>, <<"N", "A">>, <<"-", "-">>}

\* a decimal numeral: an optional '-', then digits with at most one point
IsNumeral(x) ==
  LET b == IF x # <<>> /\ x[1] = "-" THEN Tail(x) ELSE x
  IN /\ b # <<>> /\ b # <<".">>
     /\ \A i \in 1..Len(b) : b[i] \in Digits \cup {"."}
     /\ \A i, j \in 1..Len(b) : b[i] = "." /\ b[j] = "." => i = j

\* C15: for every cell string, to_float takes out the thousands separators,
\* gives null for the sentinels "", "-", "N/A", "NA" and "--" and for any text
\* that is not a number ("abc"), gives the parsed number otherwise
\* ("1,234.50" is 1234.50) and never raises; to_int gives null for the same
\* strings and the number truncated to an integer otherwise.
CoercionContract ==
  pc = "coerced" =>
    /\ asFloat.kind \in {"num", "None"} /\ asInt.kind \in {"num", "None"}
    /\ (Unseparated \in SentinelTexts => asFloat = None /\ asInt = None)
    /\ (asFloat.kind = "num" <=> IsNumeral(Unseparated))
    /\ (asInt.kind = "num" <=> asFloat.kind = "num")
    /\ (asFloat.kind = "num" =>
          /\ asFloat.val = float_value(Unseparated)
          /\ asInt.val * Scale <= asFloat.val \/ asFloat.val < 0
          /\ asFloat.val < (asInt.val + 1) * Scale
          /\ asFloat.val >= 0 \/ (asInt.val * Scale >= asFloat.val
                                   /\ asFloat.val > (asInt.val - 1) * Scale))
    /\ (cell = Text_1234_50 => asFloat = Num(1234 * Scale + Scale \div 2) /\ asInt = Num(1234))
    /\ (cell = Text_neg_2_75 => asFloat = Num(0 - (2 * Scale + 3 * (Scale \div 4))) /\ asInt = Num(0 - 2))
    /\ (cell = <<"1", ",", "5">> => asFloat = Num(15 * Scale))
    /\ (cell = <<".", "5">> => asFloat = Num(Scale \div 2) /\ asInt = Num(0))
    /\ (cell = Text_2000 => asFloat = Num(2000 * Scale) /\ asInt = Num(2000))
    /\ (cell = Text_abc => asFloat = None /\ asInt = None)

\* a separated number with a fraction has been coerced by both functions
CoercionContractWitness ==
  /\ pc = "coerced"
  /\ cell = Text_1234_50
  /\ asFloat = Num(1234 * Scale + Scale \div 2)
  /\ asInt = Num(1234)

(* ------------------------------ C11 ------------------------------------- *)
\* the second cell of the <tr> names a corporate action
EventTr(tr) ==
  /\ tr.rest # <<>>
  /\ \E i, j \in 1..Len(tr.rest[1]) :
       SubSeq(tr.rest[1], i, j) \in {Text_Dividend, Text_Stock_Split}

\* C11: no <tr> whose second cell text contains "Dividend" or "Stock Split"
\* is in the list handed to numeric and date normalization, and none is the
\* origin of a record parse_table_html returns.
EventRowsExcluded ==
  pc = "rows_parsed" =>
    /\ \A k \in 1..Len(rows) : ~EventTr(trs[rows[k].tr])
    /\ \A k \in 1..Len(frame) : ~EventTr(trs[frame[k].tr])

\* a dividend row and a stock split row of full width sat between price rows
EventRowsExcludedWitness ==
  /\ pc = "rows_parsed"
  /\ trs = <<PriceRow, SplitRow, DividendRow>>
  /\ Len(rows) = 1 /\ Len(frame) = 1
  /\ frame[1].tr = 1

(* ------------------------------ C12 ------------------------------------- *)
\* C12: for any input table, one with the same date in two rows included,
\* the dates of the returned records are strictly increasing, hence unique.
DatesStrictlyIncreasing ==
  pc = "rows_parsed" =>
    \A i, j \in 1..Len(frame) : i < j => frame[i].Date < frame[j].Date

(* ------------------------------ C13 ------------------------------------- *)
\* C13: whatever the order in which the page renders the rows, the returned
\* records are in ascending (non-decreasing) order of date.
DatesAscending ==
  pc = "rows_parsed" =>
    \A i, j \in 1..Len(frame) : i < j => frame[i].Date <= frame[j].Date

\* a page rendered newest first came out oldest first
DatesAscendingWitness ==
  /\ pc = "rows_parsed"
  /\ trs = <<PriceRow, NullRow, CombinedRow>>
  /\ Len(frame) = 3
  /\ frame[1].tr = 3 /\ frame[2].tr = 2 /\ frame[3].tr = 1

(* ------------------------------ C14 ------------------------------------- *)
\* the returned record k and the <tr> it was made from
OpenText(k) == trs[frame[k].tr].rest[1]
CloseText(k) == trs[frame[k].tr].rest[4]

\* C14: every returned record has the open and close of its own <tr>; its
\* Daily Return is close - open rounded to 4 decimals when both are numbers
\* and null when either is null.
DailyReturnDerived ==
  pc = "rows_parsed" =>
    \A k \in 1..Len(frame) :
      /\ frame[k].Open = to_float(OpenText(k))
      /\ frame[k].Close = to_float(CloseText(k))
      /\ (frame[k].Open.kind = "num" /\ frame[k].Close.kind = "num" =>
            /\ frame[k].DailyReturn.kind = "num"
            /\ frame[k].DailyReturn.val % (Scale \div 10000) = 0
            /\ 2 * (frame[k].DailyReturn.val - (frame[k].Close.val - frame[k].Open.val))
                 <= Scale \div 10000
            /\ 2 * ((frame[k].Close.val - frame[k].Open.val) - frame[k].DailyReturn.val)
                 <= Scale \div 10000)
      /\ (frame[k].Open.kind = "None" \/ frame[k].Close.kind = "None" =>
            frame[k].DailyReturn = None)
      /\ (trs[frame[k].tr] = PriceRow =>
            frame[k].DailyReturn = Num(0 - (Scale + Scale \div 4)))
      /\ (trs[frame[k].tr] = SpanDateRow =>
            frame[k].DailyReturn = Num(10 * Scale + Scale \div 2))

\* sorting moved the records, one difference needed rounding, one is null
DailyReturnDerivedWitness ==
  /\ pc = "rows_parsed"
  /\ trs = <<PriceRow, NullRow, SpanDateRow>>
  /\ Len(frame) = 3
  /\ frame[1].tr = 3 /\ frame[1].DailyReturn = Num(10 * Scale + Scale \div 2)
  /\ frame[2].tr = 2 /\ frame[2].DailyReturn = None
  /\ frame[3].tr = 1 /\ frame[3].DailyReturn = Num(0 - (Scale + Scale \div 4))

(* ------------------------------ C16 ------------------------------------- *)
\* the <tr> positions the returned records were made from
FrameTrs == {frame[k].tr : k \in 1..Len(frame)}

\* C16: of the rows handed to normalization, exactly those whose date cannot
\* be parsed are dropped; no record has a null date; a row with a parseable
\* date is retained even when all its prices are null, also when that is so
\* for every row of the table.
DroppedIffDateUnparseable ==
  pc = "rows_parsed" /\ script = "extract" =>
    /\ \A k \in 1..Len(rows) :
         rows[k].tr \in FrameTrs <=> to_datetime(rows[k].cells[1]) # NaT
    /\ \A k \in 1..Len(frame) : frame[k].Date # NaT

(* ------------------------------ C19 ------------------------------------- *)
\* the <tr> positions whose rows normalization received
NormalizedTrs ==
  IF parseError = "ValueError" THEN {} ELSE {rows[k].tr : k \in 1..Len(rows)}

\* C19: a <tr> with fewer <td> cells than the minimum (6 in extract.py, 7 in
\* url_extract.py) is skipped and makes no record; every <tr> with at least
\* the minimum that is no event row is passed on to normalization.
RowSelection ==
  pc = "rows_parsed" =>
    \A i \in 1..Len(trs) :
      LET enough == 1 + Len(trs[i].rest) >= (IF script = "extract" THEN 6 ELSE 7)
      IN /\ (~enough => i \notin NormalizedTrs /\ i \notin FrameTrs)
         /\ (enough /\ ~EventTr(trs[i]) => i \in NormalizedTrs)

(* ------------------------------ C17 ------------------------------------- *)
\* C17: an item whose extraction gives zero records (no table rows, only
\* event or short rows, only rows without a parseable date) is recorded as a
\* failure of that item, is never stored in all_data, and the batch goes on.
EmptyResultIsFailure ==
  /\ \A k \in DOMAIN all_data : all_data[k] > 0
  /\ (pc = "polite_sleep" => df > 0)
  /\ (ItemOver /\ df = 0 =>
        /\ outcomes[Len(outcomes)] = "err"
        /\ failed # <<>> /\ failed[Len(failed)] = tickers[Len(outcomes)]
        /\ lastError = "no_data")
  /\ (lastError = "no_data" /\ ~pendingAbort =>
        \/ pc = "loop" /\ idx = Len(outcomes) + 1 /\ exitCode = "running"
        \/ idx = Len(tickers) + 1 /\ pc \in {"finally", "check", "exited", "done"})
  /\ (LoopDone => attempted = tickers)

\* the first item's table held only a short row and an undated row; the
\* item is in failed and the loop is about to take the second item
EmptyResultIsFailureWitness ==
  /\ pc = "loop"
  /\ Len(tickers) = 2 /\ idx = 2
  /\ page = <<AdTable, UndatedTable>>
  /\ selected = 2 /\ df = 0
  /\ lastError = "no_data"
  /\ outcomes = <<"err">> /\ failed = <<tickers[1]>>
  /\ all_data = <<>>

(* ------------------------------ C18 ------------------------------------- *)
RECURSIVE PriceRowsOf(_)
PriceRowsOf(rs) ==
  IF rs = <<>> THEN 0
  ELSE (IF Head(rs).ntd \in {6, 7} /\ ~Head(rs).event /\ Head(rs).dateOk
          THEN Head(rs).times ELSE 0) + PriceRowsOf(Tail(rs))

\* the valid price rows the page exposes in its history table
ExposedPriceRows ==
  IF QualifyingTables = {} THEN 0
  ELSE PriceRowsOf(page[CHOOSE i \in QualifyingTables : \A j \in QualifyingTables : i <= j].rows)

\* C18: in a single-item batch of extract.py, the frame made from the page
\* as it is after range selection and scrolling has exactly one record per
\* valid price row of the page, N of them, none for a dividend row; with
\* N > 0 the item is a success and N records are stored for it.
RowPreservation ==
  Len(tickers) = 1 /\ script = "extract" =>
    /\ (df >= 0 => df = ExposedPriceRows)
    /\ (pc = "returned" /\ df > 0 /\ ~pendingAbort => outcomes = <<>>)
    /\ (LoopDone /\ df > 0 =>
          /\ outcomes = <<"ok">> /\ failed = <<>>
          /\ DOMAIN all_data = {ticker_label(script, tickers[1])}
          /\ all_data[ticker_label(script, tickers[1])] = ExposedPriceRows)
    /\ (LoopDone /\ outcomes = <<"ok">> => df = ExposedPriceRows /\ df > 0)

\* a five-year page: one dividend row and five_y_threshold price rows
RowPreservationWitness ==
  /\ pc = "done"
  /\ script = "extract"
  /\ Len(tickers) = 1
  /\ page = <<AdTable, HistTable(five_y_threshold)>>
  /\ outcomes = <<"ok">>
  /\ all_data[ticker_label(script, tickers[1])] = five_y_threshold

(* ------------------------------ C20 ------------------------------------- *)
\* browser sessions that were started and not quit
LiveSessions == orphans + (IF driverLive THEN 1 ELSE 0)

\* C20: exactly one browser session is live for the whole batch, build_driver
\* with its Chrome-then-Edge fallback leaves no second one alive, the items
\* use it one after the other, and an item is navigated to only after the
\* outcome of the item before it is recorded.
SingleSerialSession ==
  /\ LiveSessions <= 1
  /\ (pc \in ItemPcs \cup {"loop", "finally"} => LiveSessions = 1)
  /\ (pc \in ItemPcs \ {"returned", "polite_sleep"} =>
        Len(attempted) = idx /\ Len(outcomes) = idx - 1)
  /\ Len(attempted) <= Len(outcomes) + 1

(* ------------------------------ C21 ------------------------------------- *)
\* the phase of scrape_ticker a position belongs to: 1 navigate, 2 consent
\* handling and the wait for a table, 3 range selection, 4 pagination
\* loading, 5 table extraction and normalization, 6 returned, 7 collected
Phase(p) ==
  CASE p = "navigate" -> 1
    [] p \in {"consent", "wait_table"} -> 2
    [] p \in ClickPcs -> 3
    [] p = "scroll" -> 4
    [] p = "page_source" -> 5
    [] p = "returned" -> 6
    [] p = "polite_sleep" -> 7
    [] OTHER -> 0

\* C21: in extract.py every item goes through navigate, consent handling,
\* range selection, pagination loading, table extraction with normalization
\* and the collection of its result in this order, none skipped; the page
\* source is parsed only after the loader returned; an item is navigated to
\* only when the item before it has its result collected or failure recorded.
PhaseOrder ==
  [][script = "extract" =>
       /\ (pc \in ItemPcs /\ pc' \in ItemPcs => Phase(pc') \in {Phase(pc), Phase(pc) + 1})
       /\ (pc' = "navigate" => pc = "loop" /\ Len(outcomes) = Len(attempted)
                                /\ Len(outcomes) = idx - 1)
       /\ (pc' = "page_source" => pc = "scroll" /\ loaderReturn' = "None")
       /\ (pc = "page_source" => page' = page)
       /\ (pc' = "polite_sleep" => pc = "returned" /\ Len(outcomes') = Len(outcomes) + 1)
       /\ (Len(outcomes') # Len(outcomes) => pc \in ItemPcs /\ pc' \in {"loop", "polite_sleep"})
    ]_vars

\* an item of extract.py went through all phases after a failed item
PhaseOrderWitness ==
  /\ script = "extract"
  /\ pc = "polite_sleep"
  /\ outcomes = <<"err", "ok">>
  /\ loaderReturn = "None"
  /\ df > 0

(* ------------------------------ C22 ------------------------------------- *)
\* the XPaths tried before one made the function return
TriedXPaths ==
  {i \in 1..Len(xpaths) : \A j \in 1..(i - 1) : xpaths[j] \notin {"clickable", "error"}}

\* C22: whether the consent overlay is absent, present and clicked, or
\* present and not clickable, accept_cookies_if_present returns without
\* raising, the item is not marked failed, and the next phase follows; a
\* button is clicked exactly when a clickable one is met.
ConsentBestEffort ==
  /\ pc \in {"consent_loop", "wait_table"}
  /\ failed = <<>> /\ outcomes = <<>> /\ lastError = "none"
  /\ xp_i <= Len(xpaths) + 1
  /\ (pc = "wait_table" =>
        clicks = IF \E i \in TriedXPaths : xpaths[i] = "clickable" THEN 1 ELSE 0)

\* the first button never became clickable, the second one was clicked
ConsentBestEffortWitness ==
  /\ pc = "wait_table"
  /\ script = "extract"
  /\ xpaths[1] = "unclickable" /\ xpaths[2] = "clickable"
  /\ clicks = 1
  /\ failed = <<>>

(* ------------------------------ C23 ------------------------------------- *)
\* C23: with process arguments the batch is those arguments in their order,
\* whatever the configuration holds; without arguments it is the 'tickers'
\* array of the configuration object; with the configuration missing,
\* unreadable or without the key it is the default list.
InputPrecedence ==
  pc = "build_driver" =>
    /\ (argv # <<>> => tickers = argv)
    /\ (argv = <<>> /\ config.kind = "object" /\ config.hasKey => tickers = config.tickers)
    /\ (argv = <<>> /\ (config.kind # "object" \/ ~config.hasKey) =>
          tickers = <<TickerD05, TickerO39, TickerU11>>)

\* arguments and a configuration with another list: the arguments are used
InputPrecedenceWitness ==
  /\ pc = "build_driver"
  /\ argv = <<UrlD05, TickerO39>>
  /\ config = Config("object", TRUE, <<TickerD05>>)
  /\ tickers = <<UrlD05, TickerO39>>

(* ------------------------------ C24 ------------------------------------- *)
\* C24: scroll_to_load_all_rows stops by convergence exactly when the latest
\* patience + 1 measurements returned the same count; stable_rounds counts
\* the measurements that repeated the one before them and is 0 after one
\* that differs; on convergence nothing is scrolled after the last
\* measurement, so a page of constant count is measured patience + 1 times
\* and scrolled patience times; without convergence the budget is used up.
ConvergenceRule ==
  /\ (measures > 0 => stable_rounds = equalRun - 1)
  /\ (loaderExit = "converged" <=> equalRun >= patience + 1)
  /\ (loaderExit = "converged" =>
        /\ equalRun = patience + 1
        /\ measures <= max_loops
        /\ scrolls = measures - 1)
  /\ (loaderExit = "converged" /\ equalRun = measures =>
        measures = patience + 1 /\ scrolls = patience)
  /\ (loaderExit = "budget" =>
        measures = max_loops /\ scrolls = max_loops /\ equalRun <= patience)
  /\ (loaderExit = "none" /\ pc = "scroll" => scrolls = measures)

\* a page whose count never changed: four measurements, three scrolls
ConvergenceRuleWitness ==
  /\ pc = "page_source"
  /\ loaderExit = "converged"
  /\ equalRun = measures
  /\ measures = patience + 1
  /\ scrolls = patience

(* ------------------------------ C25 ------------------------------------- *)
AfterClickPcs == {"scroll", "page_source", "returned", "polite_sleep"}

\* C25: click_5y_and_wait makes at most max_retries attempts; each failed
\* attempt but the last is followed by one refresh before the next attempt;
\* nothing is refreshed after a successful attempt or after the last failed
\* one, so there are at most max_retries - 1 refreshes; after a successful
\* attempt no other attempt is made.
RetryBudget ==
  /\ attempt <= max_retries - 1
  /\ clickFailures <= max_retries
  /\ refreshes <= max_retries - 1
  /\ (pc \in ClickPcs \ {"click_init", "click_except"} =>
        clickFailures = attempt /\ refreshes = attempt)
  /\ (pc = "click_except" => clickFailures = attempt + 1 /\ refreshes = attempt)
  /\ (script = "extract" /\ pc \in AfterClickPcs =>
        IF degraded
          THEN clickFailures = max_retries /\ refreshes = max_retries - 1
          ELSE clickFailures = attempt /\ refreshes = attempt)
  /\ (lastError = "refresh_wait_timeout" =>
        refreshes = clickFailures /\ clickFailures = attempt + 1)

\* two attempts failed and were each followed by a refresh, the third succeeded
RetryBudgetWitness ==
  /\ script = "extract"
  /\ pc = "scroll"
  /\ ~degraded
  /\ attempt = 2 /\ clickFailures = 2 /\ refreshes = 2

(* ------------------------------ C26 ------------------------------------- *)
\* C26: within one attempt of click_5y_and_wait the 5Y button is clicked only
\* after aria-hidden was read 'false' in that attempt; the function returns
\* from the try body only after aria-hidden was then read 'true' and a row
\* count above five_y_threshold was seen; a wait that times out ends the
\* attempt and none of the steps after it runs.
StepOrder ==
  [][ /\ (pc = "click_5y" /\ pc' = "click_close_verify" =>
            dropdown = "open" /\ attempt' = attempt)
      /\ (pc \in ClickPcs \ {"click_5y", "click_except"} => page' = page)
      /\ (dropdown' = "closed" /\ dropdown # "closed" =>
            pc = "click_close_verify" /\ dropdown = "open" /\ attempt' = attempt)
      /\ (pc \in ClickPcs /\ pc' = "scroll" /\ ~degraded' =>
            /\ pc = "click_reload_verify"
            /\ dropdown = "closed"
            /\ count_data_rows(page) > five_y_threshold
            /\ page' = page /\ attempt' = attempt)
      /\ (pc \in ClickPcs \ {"click_except"} /\ pc' = "click_except" =>
            /\ page' = page /\ dropdown' = dropdown /\ attempt' = attempt
            /\ clickFailures' = clickFailures + 1)
    ]_vars

\* the first attempt ended at a failed wait, the second went through all five steps
StepOrderWitness ==
  /\ script = "extract"
  /\ pc = "scroll"
  /\ ~degraded
  /\ dropdown = "closed"
  /\ clickFailures = 1
  /\ count_data_rows(page) > five_y_threshold

(* ------------------------------ C27 ------------------------------------- *)
\* C27: in extract.py the date text of a row handed to normalization is the
\* first direct text node of the date cell when the cell has one and the
\* cell's full text otherwise; a row whose date cell holds a parseable date,
\* in its direct text or in its full text, is kept by normalization.
DateTextExtraction ==
  pc = "rows_parsed" /\ script = "extract" /\ parseError = "none" =>
    \A k \in 1..Len(rows) :
      LET tr == trs[rows[k].tr]
      IN /\ rows[k].cells[1] = (IF tr.direct # <<>> THEN tr.direct ELSE tr.full)
         /\ (to_datetime(tr.direct) # NaT \/ to_datetime(tr.full) # NaT =>
               rows[k].tr \in FrameTrs)

(* ------------------------------ C28 ------------------------------------- *)
\* the keys the items of the input list are stored under are pairwise distinct
DistinctLabels ==
  \A i, j \in 1..Len(tickers) :
    ticker_label(script, tickers[i]) = ticker_label(script, tickers[j]) => i = j

InFailed(item) == \E j \in 1..Len(failed) : failed[j] = item

\* C28: for an input list with pairwise distinct ticker labels, every item
\* the loop of main has finished is either a key of all_data or an element of
\* failed, never both and never neither; the keys of all_data are the items
\* whose scrape returned a non-empty frame; after the loop this is so for
\* every item of the list.
OutcomePartition ==
  DistinctLabels =>
    /\ \A i \in 1..Len(outcomes) :
         LET label == ticker_label(script, tickers[i])
             inAllData == label \in DOMAIN all_data
         IN /\ inAllData <=> ~InFailed(tickers[i])
            /\ inAllData <=> outcomes[i] = "ok"
            /\ inAllData => all_data[label] > 0
    /\ Cardinality(DOMAIN all_data) + Len(failed) = Len(outcomes)
    /\ \A i \in (Len(outcomes) + 1)..Len(tickers) :
         /\ ticker_label(script, tickers[i]) \notin DOMAIN all_data
         /\ ~InFailed(tickers[i])
    /\ (LoopDone => Len(outcomes) = Len(tickers))

OutcomePartitionWitness ==
  /\ pc = "done"
  /\ script = "url_extract"
  /\ Len(tickers) = 2
  /\ DistinctLabels
  /\ tickers[1] = UrlD05
  /\ DOMAIN all_data = {ticker_label(script, UrlD05)}
  /\ failed = <<tickers[2]>>

(* ------------------------------ C29 ------------------------------------- *)
\* C29: the step in which an item fails leaves all_data as it was, with the
\* entries of the earlier items and no entry for the failing item, and
\* appends the item to failed; no other step changes failed.
FailureFrame ==
  [][ /\ (failed' # failed \/ (Len(outcomes') > Len(outcomes) /\ outcomes'[Len(outcomes')] = "err") =>
            /\ pc \in ItemPcs
            /\ failed' = Append(failed, tickers[idx])
            /\ outcomes' = Append(outcomes, "err")
            /\ all_data' = all_data
            /\ <<driverLive', quitCount', exported', exitCode'>> =
                 <<driverLive, quitCount, exported, exitCode>>)
      /\ (all_data' # all_data =>
            /\ failed' = failed
            /\ outcomes' = Append(outcomes, "ok")
            /\ \A k \in DOMAIN all_data :
                 k # ticker_label(script, tickers[idx]) =>
                   k \in DOMAIN all_data' /\ all_data'[k] = all_data[k])
    ]_vars

\* the second item has just failed, the frame of the first is still stored
FailureFrameWitness ==
  /\ pc = "loop"
  /\ outcomes = <<"ok", "err">>
  /\ failed = <<tickers[2]>>
  /\ DOMAIN all_data = {ticker_label(script, tickers[1])}
  /\ all_data[ticker_label(script, tickers[1])] > 0

(* ------------------------------ C30 ------------------------------------- *)
RECURSIVE ExcludedRuns(_)
\* the rows of a table that count_data_rows counts and that are event rows
\* or rows without a parseable date
ExcludedRuns(rs) ==
  IF rs = <<>> THEN 0
  ELSE (IF Head(rs).ntd >= min_td_count /\ (Head(rs).event \/ ~Head(rs).dateOk)
          THEN Head(rs).times ELSE 0) + ExcludedRuns(Tail(rs))

RECURSIVE ExcludedRows(_)
ExcludedRows(doc) ==
  IF doc = <<>> THEN 0 ELSE ExcludedRuns(Head(doc).rows) + ExcludedRows(Tail(doc))

\* C30: in url_extract.py, when the loader converged at N > 0 counted rows,
\* the page parsed is the page last measured and every counted row that is
\* neither an event row nor a row without a parseable date makes a record:
\* N records when the page has no such rows.
ValidRowAgreement ==
  script = "url_extract" /\ pc = "returned" /\ loaderExit = "converged" /\ last_count > 0 =>
    /\ count_data_rows(page) = last_count
    /\ df = last_count - ExcludedRows(page)

(* ------------------------------ C31 ------------------------------------- *)
\* C31: in url_extract.py parse_table_html returns a frame, possibly empty,
\* for every list of rows of the selected table, whatever the number of
\* <td> cells of each row; it does not raise. (The rounding of an object
\* column, which another claim is about, is left out.)
ParseReturnsFrame ==
  pc = "rows_parsed" /\ script = "url_extract" /\ ~roundObjectRaises =>
    parseError = "none"

(* ------------------------------ C32 ------------------------------------- *)
\* C32: the 'Latest Close' that main of url_extract_EV_EBITDA.py writes to the
\* summary row of a scraped ticker is the close of a record whose date is
\* the greatest date of the ticker's frame.
LatestCloseIsNewest ==
  pc = "done" /\ script = EvEbitda =>
    \E k \in 1..Len(frame) :
      /\ \A j \in 1..Len(frame) : frame[j].Date <= frame[k].Date
      /\ latest_close = frame[k].Close

(* ------------------------------ C33 ------------------------------------- *)
\* C33: in fetch_all_stocks every call of fetch_daily_data but the first of
\* the run is made after a wait of at least 12 seconds since the call before
\* it, the call with the '.SGX' ticker included, at every ticker position.
CallSpacing ==
  [][calls' = calls + 1 /\ calls > 0 => waited >= min_call_gap]_vars

(* ------------------------------ C34 ------------------------------------- *)
\* C34: in sequential mode of fetch_real_data.py a workbook is exported only
\* when the data of at least one ticker was retrieved; when
\* fetch_single_stock failed for every configured ticker, main exports
\* nothing and takes its 'No data retrieved' branch.
ExportOnlyWithData ==
  pc = "rd_done" =>
    /\ (exported => successful # <<>>)
    /\ (tickers # <<>> /\ Len(failed) = Len(tickers) =>
          ~exported /\ lastError = "no_data_retrieved")

====
